---- MODULE Spec2Model ----
(***************************************************************************)
(* Model of the emission-factor matcher (core/matcher.ts): the tiered      *)
(* resolver getEmissionFactorWithFallback, the three matching strategies   *)
(* and matchTransaction, over an abstract DatabaseAdapter.                 *)
(*                                                                         *)
(* Representation.  Text that the code inspects character by character     *)
(* (VAT numbers, supplier names, descriptions) is a sequence of one-letter *)
(* strings; an absent or empty text is <<>>.  Codes and identifiers the    *)
(* code only compares (NACE codes, country codes, ids) are strings, with   *)
(* NULL for null/undefined.  A null object is NullRec.  Confidence values  *)
(* are integers in hundredths (0.95 is 95).  Emission intensities are      *)
(* exact rationals [num, den], so that a mean is not rounded.              *)
(***************************************************************************)
EXTENDS Integers, Sequences, FiniteSets, TLC

NULL == "null"
NullRec == [isNull |-> TRUE]
TierNull == 0

\* JavaScript truthiness of a string-valued code: null, undefined and '' are falsy.
Truthy(s) == s # NULL /\ s # ""

----------------------------------------------------------------------------
(* Constants of matcher.ts *)

DEFAULT_CONFIG ==
  [ confidenceLevels |-> [tier1 |-> 95, tier2 |-> 85, tier3 |-> 75, tier4 |-> 65],
    methodConfidence |-> [vat_lookup |-> 95, account_mapping |-> 85, supplier_mapping |-> 75],
    tierAdjustments  |-> [tier2 |-> -10, tier3 |-> -20, tier4 |-> -30],
    enableLearning   |-> TRUE,
    cacheVAT         |-> TRUE ]

VAT_COUNTRY_MAP ==
  { "SE", "NO", "DK", "FI", "IS",
    "AT", "BE", "BG", "HR", "CY",
    "CZ", "DE", "EE", "GR", "ES",
    "FR", "HU", "IE", "IT", "LV",
    "LT", "LU", "MT", "NL", "PL",
    "PT", "RO", "SK", "SI", "GB",
    "CH", "US", "CA", "AU", "JP",
    "CN", "IN", "BR", "MX", "ZA",
    "KR", "TW", "ID", "TR", "RU" }

EU_COUNTRIES ==
  { "AT", "BE", "BG", "HR", "CY", "CZ", "DK", "EE", "FI", "FR",
    "DE", "GR", "HU", "IE", "IT", "LV", "LT", "LU", "MT", "NL",
    "PL", "PT", "RO", "SK", "SI", "ES", "SE" }

----------------------------------------------------------------------------
(* Text helpers: String.prototype.toUpperCase / toLowerCase / includes / trim *)

LowerLetters == << "a","b","c","d","e","f","g","h","i","j","k","l","m",
                   "n","o","p","q","r","s","t","u","v","w","x","y","z" >>
UpperLetters == << "A","B","C","D","E","F","G","H","I","J","K","L","M",
                   "N","O","P","Q","R","S","T","U","V","W","X","Y","Z" >>

toUpperChar(c) ==
  IF \E i \in DOMAIN LowerLetters : LowerLetters[i] = c
  THEN UpperLetters[CHOOSE i \in DOMAIN LowerLetters : LowerLetters[i] = c]
  ELSE c

toLowerChar(c) ==
  IF \E i \in DOMAIN UpperLetters : UpperLetters[i] = c
  THEN LowerLetters[CHOOSE i \in DOMAIN UpperLetters : UpperLetters[i] = c]
  ELSE c

toUpperCase(s) == [i \in DOMAIN s |-> toUpperChar(s[i])]
toLowerCase(s) == [i \in DOMAIN s |-> toLowerChar(s[i])]

\* text.includes(pat)
Includes(text, pat) ==
  \E i \in 1..(Len(text) - Len(pat) + 1) : SubSeq(text, i, i + Len(pat) - 1) = pat

WhiteSpace == {" "}

RECURSIVE TrimStart(_)
TrimStart(s) ==
  IF s # <<>> /\ Head(s) \in WhiteSpace THEN TrimStart(Tail(s)) ELSE s

RECURSIVE TrimEnd(_)
TrimEnd(s) ==
  IF s # <<>> /\ s[Len(s)] \in WhiteSpace THEN TrimEnd(SubSeq(s, 1, Len(s) - 1)) ELSE s

Trim(s) == TrimEnd(TrimStart(s))

----------------------------------------------------------------------------
(* Utility functions *)

\* getCountryFromVAT: first two characters, uppercased, looked up in the table.
getCountryFromVAT(vatNumber) ==
  IF Len(vatNumber) < 2 THEN NULL
  ELSE LET up     == toUpperCase(SubSeq(vatNumber, 1, 2))
           prefix == up[1] \o up[2]
       IN  IF prefix \in VAT_COUNTRY_MAP THEN prefix ELSE NULL

\* The alternatives of the suffix pattern of normalizeSupplierName.
COMPANY_SUFFIXES ==
  { <<"a","b">>, <<"o","y">>, <<"a","s">>, <<"g","m","b","h">>, <<"l","t","d">>,
    <<"l","l","c">>, <<"i","n","c">>, <<"c","o","r","p">>, <<"s","a">>,
    <<"s","r","l">>, <<"b","v">>, <<"a","g">>, <<"n","v">>, <<"b","h","d">>,
    <<"s","d","n">>, <<"p","t","e">> }

\* Does s, taken to the end of the text, match  \s*(ab|oy|...)\s*$  ?
MatchesSuffixPattern(s) == Trim(s) \in COMPANY_SUFFIXES

\* replace(/\s*(ab|...)\s*$/gi, ''): the leftmost position from which the rest of
\* the text matches is where the match starts; everything from there is removed.
StripCompanySuffix(s) ==
  LET starts == { i \in 1..Len(s) : MatchesSuffixPattern(SubSeq(s, i, Len(s))) }
  IN  IF starts = {} THEN s
      ELSE LET first == CHOOSE i \in starts : \A j \in starts : i <= j
           IN  SubSeq(s, 1, first - 1)

normalizeSupplierName(name) == Trim(StripCompanySuffix(toLowerCase(name)))

\* The keyword tests of extractProductHints, in the order the code makes them.
HINT_RULES ==
  << [hint |-> "wind",          keys |-> { <<"w","i","n","d">> }],
     [hint |-> "solar",         keys |-> { <<"s","o","l","a","r">> }],
     [hint |-> "hydro",         keys |-> { <<"h","y","d","r","o">> }],
     [hint |-> "nuclear",       keys |-> { <<"n","u","c","l","e","a","r">> }],
     [hint |-> "coal",          keys |-> { <<"c","o","a","l">> }],
     [hint |-> "gas",           keys |-> { <<"g","a","s">> }],
     [hint |-> "electricity",   keys |-> { <<"e","l","e","c","t","r","i","c","i","t","y">> }],
     [hint |-> "air transport", keys |-> { <<"f","l","i","g","h","t">>, <<"a","i","r","l","i","n","e">> }],
     [hint |-> "rail",          keys |-> { <<"t","r","a","i","n">>, <<"r","a","i","l","w","a","y">> }],
     [hint |-> "freight",       keys |-> { <<"t","r","u","c","k">>, <<"f","r","e","i","g","h","t">> }],
     [hint |-> "renewable",     keys |-> { <<"b","i","o","f","u","e","l">>, <<"r","e","n","e","w","a","b","l","e">> }],
     [hint |-> "fossil",        keys |-> { <<"f","o","s","s","i","l">> }] >>

\* the scan with each hit put in front of the earlier ones
RECURSIVE ScanHintsReversed(_, _)
ScanHintsReversed(text, k) ==
  IF k > Len(HINT_RULES) THEN <<>>
  ELSE ScanHintsReversed(text, k + 1)
       \o (IF \E key \in HINT_RULES[k].keys : Includes(text, key)
           THEN <<HINT_RULES[k].hint>> ELSE <<>>)

RECURSIVE ScanHints(_, _)
ScanHints(text, k) ==
  IF k > Len(HINT_RULES) THEN <<>>
  ELSE (IF \E key \in HINT_RULES[k].keys : Includes(text, key)
        THEN <<HINT_RULES[k].hint>> ELSE <<>>) \o ScanHints(text, k + 1)

extractProductHints(description) ==
  IF description = <<>> THEN <<>> ELSE ScanHints(toLowerCase(description), 1)

----------------------------------------------------------------------------
(* Arithmetic *)

Rat(n) == [num |-> n, den |-> 1]
RatAdd(a, b) == [num |-> a.num * b.den + b.num * a.den, den |-> a.den * b.den]
RatDiv(a, n) == [num |-> a.num, den |-> a.den * n]
RatEq(a, b) == a.num * b.den = b.num * a.den

Max(a, b) == IF a >= b THEN a ELSE b
Min(a, b) == IF a <= b THEN a ELSE b

----------------------------------------------------------------------------
(* Emission factors *)

\* A stored catalog row (EmissionFactor); v is its intensity in whole units.
Row(id, nace, country, product, v) ==
  [ id |-> id, nace_code |-> nace, country_code |-> country,
    country_name |-> country,
    exiobase_product_code |-> product,
    emission_factor_kgco2e_per_eur |-> Rat(v),
    confidence_level |-> "high",
    metadata |-> [tier |-> TierNull, averaged |-> 0] ]

\* factors.reduce((sum, f) => sum + f.emission_factor_kgco2e_per_eur, 0)
RECURSIVE SumIntensity(_, _, _)
SumIntensity(factors, k, sum) ==
  IF k > Len(factors) THEN sum
  ELSE SumIntensity(factors, k + 1, RatAdd(sum, factors[k].emission_factor_kgco2e_per_eur))

\* the sum left undivided
AverageUndivided(factors) == SumIntensity(factors, 1, Rat(0))

\* avgEmissionFactor = reduce(...) / factors.length
Average(factors) == RatDiv(SumIntensity(factors, 1, Rat(0)), Len(factors))

\* !factors || factors.length === 0
NoRows(factors) == Len(factors) = 0

\* The synthetic factor getEmissionFactorTier2 returns for a non-empty result.
SyntheticTier2(factors) ==
  [ factors[1] EXCEPT
      !.emission_factor_kgco2e_per_eur = Average(factors),
      !.exiobase_product_code = NULL,
      !.confidence_level = "medium",
      !.metadata = [tier |-> 2, averaged |-> Len(factors)] ]

\* The synthetic factor getEmissionFactorTier3 returns for a non-empty result.
SyntheticTier3(factors) ==
  [ factors[1] EXCEPT
      !.emission_factor_kgco2e_per_eur = Average(factors),
      !.country_code = "EU",
      !.country_name = "European Union (Average)",
      !.exiobase_product_code = NULL,
      !.confidence_level = "medium",
      !.metadata = [tier |-> 3, averaged |-> Len(factors)] ]

\* naceFactors.scope_3_factor || 0, the value being <<>> for null and <<v>> otherwise
OrZero(opt) == IF opt = <<>> THEN 0 ELSE opt[1]

\* The factor getEmissionFactorTier4 builds from the aggregated NACE record.
SyntheticTier4(naceFactors) ==
  [ id |-> naceFactors.id, nace_code |-> naceFactors.nace_code,
    country_code |-> "XX", country_name |-> "Global Average",
    exiobase_product_code |-> NULL,
    emission_factor_kgco2e_per_eur |-> Rat(OrZero(naceFactors.scope_3_factor)),
    confidence_level |-> "low",
    metadata |-> [tier |-> 4, averaged |-> 0] ]

----------------------------------------------------------------------------
(* Confidence *)

\* tier === 1 ? 0 : config.tierAdjustments[`tier${tier}`] || 0
TierAdjustment(cfg, tier) ==
  CASE tier = 1 -> 0
    [] tier = 2 -> cfg.tierAdjustments.tier2
    [] tier = 3 -> cfg.tierAdjustments.tier3
    [] tier = 4 -> cfg.tierAdjustments.tier4

\* Math.max(0, Math.min(1, x)), in hundredths
Clamp01(x) == Max(0, Min(100, x))

\* fallbackApplied: tier !== 1
FallbackAppliedFromTier3(tier) == tier > 2

FallbackApplied(tier) == tier # 1

----------------------------------------------------------------------------
(* Strategy results that follow a repository answer *)

\* matchByVAT once the cache answered: a null or invalid entry gives the country only.
matchByVATIgnoringValidity(cached, vatNumber) ==
  LET countryCode == getCountryFromVAT(vatNumber)
  IN  IF cached # NullRec /\ ~cached.is_valid
      THEN [ naceCode |-> cached.nace_code,
             countryCode |-> IF Truthy(countryCode) THEN countryCode ELSE cached.country_code ]
      ELSE [ naceCode |-> NULL, countryCode |-> countryCode ]

\* the cache entry's country preferred over the one derived from the prefix
matchByVATPreferringCache(cached, vatNumber) ==
  LET countryCode == getCountryFromVAT(vatNumber)
  IN  IF cached # NullRec /\ cached.is_valid
      THEN [ naceCode |-> cached.nace_code, countryCode |-> cached.country_code ]
      ELSE [ naceCode |-> NULL, countryCode |-> countryCode ]

matchByVATResult(cached, vatNumber) ==
  LET countryCode == getCountryFromVAT(vatNumber)
  IN  IF cached # NullRec /\ cached.is_valid
      THEN [ naceCode |-> cached.nace_code,
             countryCode |-> IF Truthy(countryCode) THEN countryCode ELSE cached.country_code ]
      ELSE [ naceCode |-> NULL, countryCode |-> countryCode ]

\* if (!countryCode && vatCountry) countryCode = vatCountry
CountryAfterVATIgnored(countryCode, vatCountry) == countryCode

CountryAfterVAT(countryCode, vatCountry) ==
  IF ~Truthy(countryCode) /\ Truthy(vatCountry) THEN vatCountry ELSE countryCode

\* matchByAccountCode once the mapping lookup answered
matchByAccountCodeWithoutLink(mapping) ==
  IF mapping = NullRec THEN [naceCode |-> NULL, emissionFactorId |-> NULL]
  ELSE [naceCode |-> mapping.nace_code, emissionFactorId |-> NULL]

matchByAccountCodeResult(mapping) ==
  IF mapping = NullRec THEN [naceCode |-> NULL, emissionFactorId |-> NULL]
  ELSE [naceCode |-> mapping.nace_code, emissionFactorId |-> mapping.emission_factor_id]

----------------------------------------------------------------------------
(* State *)

VARIABLES
  tx,                \* the Transaction being matched
  companyId,         \* matchTransaction's companyId argument
  config,            \* matchTransaction's config argument
  db,                \* the DatabaseAdapter's answers and its usage counters
  pc,                \* the await (or block) the call is at
  strategy,          \* the strategy block being executed
  productHints,      \* const productHints
  countryCode,       \* let countryCode
  naceCode,          \* const naceCode of the current strategy block
  mapping,           \* the account or supplier mapping just fetched
  hintIdx,           \* position of the for-of loop over productHints
  factors,           \* const factors of getEmissionFactorTier2 / Tier3
  fallback,          \* what getEmissionFactorWithFallback returned
  calls,             \* the repository calls issued so far, in order
  result,            \* the MatchResult returned, NullRec before that
  error,             \* the failure the call rejected with, NULL if none
  transactions,      \* batchMatchTransactions' transactions argument
  batchIdx,          \* position of its for-of loop
  results,           \* its results Map, as the entries in insertion order
  batchPc,           \* where batchMatchTransactions is
  suspended,         \* the locals of the matchTransaction calls awaiting a turn
  running,           \* the call whose locals the variables above hold
  fn,                \* the exported synchronous function being applied
  arg,               \* its argument
  ret                \* its return value, once it has returned

\* What belongs to the callers of matchTransaction.
caller == << transactions, batchIdx, results, batchPc, suspended, running, fn, arg, ret >>

vars == << tx, companyId, config, db, pc, strategy, productHints, countryCode,
           naceCode, mapping, hintIdx, factors, fallback, calls, result, error,
           caller >>

\* What no step of matchTransaction assigns: its arguments and its callers' state.
inputs == << tx, companyId, config, caller >>

----------------------------------------------------------------------------
(* The DatabaseAdapter: each lookup is a table of answers, a key that is   *)
(* not in the table being a miss.                                          *)

Lookup(table, key) == IF key \in DOMAIN table THEN table[key] ELSE NullRec

LookupRows(table, key) == IF key \in DOMAIN table THEN table[key] ELSE <<>>

NoHint == "(any)"

\* findEmissionFactor({nace_code, country_code, product_hint?, scope, is_active})
findEmissionFactor(d, nace, country, hint) ==
  Lookup(d.emissionFactor, <<nace, country, hint>>)

\* findEmissionFactors({nace_code, country_code, scope, is_active})
findEmissionFactors(d, nace, country) ==
  LookupRows(d.emissionFactors, <<nace, country>>)

\* findEmissionFactors({nace_code, country_codes: EU_COUNTRIES, scope, is_active})
findEmissionFactorsEU(d, nace) == LookupRows(d.emissionFactorsEU, nace)

findNACEEmissionFactor(d, nace) == Lookup(d.naceEmissionFactor, nace)
getEmissionFactorById(d, id) == Lookup(d.emissionFactorById, id)
getVATCache(d, vatNumber) == Lookup(d.vatCache, vatNumber)
getAccountMapping(d, company, accountCode) == Lookup(d.accountMapping, <<company, accountCode>>)
getSupplierMapping(d, normalized) == Lookup(d.supplierMapping, normalized)

\* An awaited repository call settles with its answer or rejects.
Outcomes(answer, none) ==
  { [ok |-> TRUE, value |-> answer], [ok |-> FALSE, value |-> none] }

\* await rethrows a rejection: there is no try/catch anywhere in the module.
RejectedNever(outcome) == FALSE

Rejected(outcome) == ~outcome.ok

Call(op, key, outcome) ==
  [op |-> op, strategy |-> strategy, key |-> key, ok |-> outcome.ok]

\* The rejection leaves matchTransaction; nothing else of the call runs.
Throw(op) ==
  /\ pc' = "failed"
  /\ error' = op
  /\ UNCHANGED << inputs, db, strategy, productHints, countryCode, naceCode,
                  mapping, hintIdx, factors, fallback, result >>

----------------------------------------------------------------------------
(* Results *)

MethodOf(s) ==
  CASE s = "vat" -> "vat_lookup"
    [] s = "account" -> "account_mapping"
    [] s = "supplier" -> "supplier_mapping"

\* The strategy's own description, the first part of the reasoning string.
DescriptionOf(s) ==
  CASE s = "vat" -> <<"VAT lookup">>
    [] s = "account" -> <<"Account code", tx.account_code>>
    [] s = "supplier" -> <<"Supplier name">>

\* The MatchResult of a strategy whose NACE code was tiered to a factor.
TieredResult(s, fb) ==
  [ emissionFactor  |-> fb.factor,
    naceCode        |-> naceCode,
    countryCode     |-> IF Truthy(countryCode) THEN countryCode ELSE NULL,
    productCode     |-> fb.factor.exiobase_product_code,
    confidence      |-> Clamp01(config.methodConfidence[MethodOf(s)]
                                + TierAdjustment(config, fb.tier)),
    tier            |-> fb.tier,
    method          |-> MethodOf(s),
    reasoning       |-> DescriptionOf(s) \o fb.reasoning,
    fallbackApplied |-> FallbackApplied(fb.tier) ]

\* The MatchResult of an account mapping with a pre-linked emission factor.
PreMappedResult(factor) ==
  [ emissionFactor  |-> factor,
    naceCode        |-> naceCode,
    countryCode     |-> factor.country_code,
    productCode     |-> factor.exiobase_product_code,
    confidence      |-> config.methodConfidence.account_mapping,
    tier            |-> 1,
    method          |-> "account_mapping",
    reasoning       |-> <<"Account code", tx.account_code, "Pre-mapped emission factor">>,
    fallbackApplied |-> FALSE ]

NoMatchResult ==
  [ emissionFactor  |-> NullRec,
    naceCode        |-> NULL,
    countryCode     |-> NULL,
    productCode     |-> NULL,
    confidence      |-> 0,
    tier            |-> TierNull,
    method          |-> "none",
    reasoning       |-> <<"No automatic match found. Manual assignment required.">>,
    fallbackApplied |-> FALSE ]

\* Where control goes when a strategy block ends without returning.
NextStrategySkippingSupplier(s) ==
  CASE s = "vat" -> "strategy2"
    [] s = "account" -> "nomatch"
    [] s = "supplier" -> "nomatch"

\* a strategy whose NACE code resolves to nothing ends the search
NextStrategyGivingUp(s) == "nomatch"

\* a strategy that ends without a result is entered again
NextStrategyRetrying(s) ==
  CASE s = "vat" -> "strategy1"
    [] s = "account" -> "strategy2"
    [] s = "supplier" -> "strategy3"

NextStrategy(s) ==
  CASE s = "vat" -> "strategy2"
    [] s = "account" -> "strategy3"
    [] s = "supplier" -> "nomatch"

\* A strategy block that built its MatchResult returns it.
AfterResolvedVATFallsThrough(s) == IF s = "vat" THEN "strategy2" ELSE "done"

AfterResolved(s) == "done"

\* if (tier1): a factor found by either tier-1 query is returned
Tier1HitNever(factor) == FALSE

Tier1Hit(factor) == factor # NullRec

----------------------------------------------------------------------------
(* matchTransaction, one action per block or await *)

\* lines 417-418
Begin ==
  /\ pc = "start"
  /\ productHints' = extractProductHints(tx.description)
  /\ countryCode' = tx.supplier_country
  /\ pc' = "strategy1"
  /\ UNCHANGED << inputs, db, strategy, naceCode, mapping, hintIdx, factors, fallback,
                  calls, result, error >>

\* What follows matchByVAT's return in the VAT block (lines 422-425).
AfterMatchByVAT(vat) ==
  /\ countryCode' = CountryAfterVAT(countryCode, vat.countryCode)
  /\ naceCode' = vat.naceCode
  /\ pc' = IF Truthy(vat.naceCode) THEN "fallback" ELSE NextStrategy("vat")

\* The VAT block up to the cache lookup (line 421, matchByVAT lines 336-342).
Strategy1 ==
  /\ pc = "strategy1"
  /\ strategy' = "vat"
  /\ IF tx.vat_number = <<>>
     THEN pc' = NextStrategy("vat") /\ UNCHANGED << countryCode, naceCode >>
     ELSE IF config.cacheVAT
          THEN pc' = "getVATCache" /\ UNCHANGED << countryCode, naceCode >>
          ELSE AfterMatchByVAT(matchByVATResult(NullRec, tx.vat_number))
  /\ UNCHANGED << inputs, db, productHints, mapping, hintIdx, factors, fallback,
                  calls, result, error >>

\* await db.getVATCache(transaction.vat_number)
GetVATCache ==
  /\ pc = "getVATCache"
  /\ \E r \in Outcomes(getVATCache(db, tx.vat_number), NullRec) :
       /\ calls' = Append(calls, Call("getVATCache", tx.vat_number, r))
       /\ IF Rejected(r) THEN Throw("getVATCache")
          ELSE /\ AfterMatchByVAT(matchByVATResult(r.value, tx.vat_number))
               /\ UNCHANGED << inputs, db, strategy, productHints, mapping,
                               hintIdx, factors, fallback, result, error >>

----------------------------------------------------------------------------
(* getEmissionFactorWithFallback *)

ProductInfo == IF Len(productHints) > 0 THEN productHints[1] ELSE ""

Tier1Found(factor) ==
  [ factor |-> factor, tier |-> 1,
    reasoning |-> <<"Exact match", countryCode, naceCode, ProductInfo>> ]

Tier2Found(factor) ==
  [ factor |-> factor, tier |-> 2,
    reasoning |-> <<"Country average", countryCode, naceCode>> ]

Tier3Found(factor) ==
  [ factor |-> factor, tier |-> 3, reasoning |-> <<"EU average", naceCode>> ]

Tier4Found(factor) ==
  [ factor |-> factor, tier |-> 4, reasoning |-> <<"Global sector average", naceCode>> ]

NotFound ==
  [ factor |-> NullRec, tier |-> TierNull,
    reasoning |-> <<"No emission factor found", naceCode>> ]

\* Entry (line 275) and the entry of getEmissionFactorTier1 (line 132).
EnterFallback ==
  /\ pc = "fallback"
  /\ IF Truthy(countryCode)
     THEN IF Len(productHints) > 0
          THEN pc' = "tier1_hint" /\ hintIdx' = 1
          ELSE pc' = "tier1_any" /\ UNCHANGED hintIdx
     ELSE pc' = "tier3" /\ UNCHANGED hintIdx
  /\ UNCHANGED << inputs, db, strategy, productHints, countryCode, naceCode,
                  mapping, factors, fallback, calls, result, error >>

\* for (const hint of productHints): the hint of the i-th iteration (line 133)
HintAtFromTheEnd(hints, i) == hints[Len(hints) + 1 - i]

HintAt(hints, i) == hints[i]

\* Tier 1, the query for the hint the loop is at (lines 133-142, 277).
Tier1Hint ==
  /\ pc = "tier1_hint"
  /\ \E r \in Outcomes(findEmissionFactor(db, naceCode, countryCode, HintAt(productHints, hintIdx)),
                       NullRec) :
       /\ calls' = Append(calls, Call("findEmissionFactor",
                                      <<naceCode, countryCode, HintAt(productHints, hintIdx)>>, r))
       /\ IF Rejected(r) THEN Throw("findEmissionFactor")
          ELSE /\ IF r.value # NullRec
                  THEN /\ UNCHANGED hintIdx
                       /\ IF Tier1Hit(r.value)
                          THEN fallback' = Tier1Found(r.value) /\ pc' = "fallback_return"
                          ELSE pc' = "tier2" /\ UNCHANGED fallback
                  ELSE /\ UNCHANGED fallback
                       /\ IF hintIdx < Len(productHints)
                          THEN hintIdx' = hintIdx + 1 /\ pc' = "tier1_hint"
                          ELSE pc' = "tier1_any" /\ UNCHANGED hintIdx
               /\ UNCHANGED << inputs, db, strategy, productHints, countryCode,
                               naceCode, mapping, factors, result, error >>

\* Tier 1, the query without a product hint (lines 146-151, 277).
Tier1Any ==
  /\ pc = "tier1_any"
  /\ \E r \in Outcomes(findEmissionFactor(db, naceCode, countryCode, NoHint), NullRec) :
       /\ calls' = Append(calls, Call("findEmissionFactor",
                                      <<naceCode, countryCode, NoHint>>, r))
       /\ IF Rejected(r) THEN Throw("findEmissionFactor")
          ELSE /\ IF Tier1Hit(r.value)
                  THEN fallback' = Tier1Found(r.value) /\ pc' = "fallback_return"
                  ELSE pc' = "tier2" /\ UNCHANGED fallback
               /\ UNCHANGED << inputs, db, strategy, productHints, countryCode,
                               naceCode, mapping, hintIdx, factors, result, error >>

\* Tier 2 (lines 162-190, 287-294).
Tier2 ==
  /\ pc = "tier2"
  /\ \E r \in Outcomes(findEmissionFactors(db, naceCode, countryCode), <<>>) :
       /\ calls' = Append(calls, Call("findEmissionFactors", <<naceCode, countryCode>>, r))
       /\ IF Rejected(r) THEN Throw("findEmissionFactors")
          ELSE /\ factors' = r.value
               /\ IF NoRows(r.value)
                  THEN pc' = "tier3" /\ UNCHANGED fallback
                  ELSE /\ fallback' = Tier2Found(SyntheticTier2(r.value))
                       /\ pc' = "fallback_return"
               /\ UNCHANGED << inputs, db, strategy, productHints, countryCode,
                               naceCode, mapping, hintIdx, result, error >>

\* Tier 3 (lines 200-230, 298-305).
Tier3 ==
  /\ pc = "tier3"
  /\ \E r \in Outcomes(findEmissionFactorsEU(db, naceCode), <<>>) :
       /\ calls' = Append(calls, Call("findEmissionFactors", <<naceCode, "EU_COUNTRIES">>, r))
       /\ IF Rejected(r) THEN Throw("findEmissionFactors")
          ELSE /\ factors' = r.value
               /\ IF NoRows(r.value)
                  THEN pc' = "tier4" /\ UNCHANGED fallback
                  ELSE /\ fallback' = Tier3Found(SyntheticTier3(r.value))
                       /\ pc' = "fallback_return"
               /\ UNCHANGED << inputs, db, strategy, productHints, countryCode,
                               naceCode, mapping, hintIdx, result, error >>

\* if (!naceFactors) return null (line 242)
Tier4MissWithoutValue(naceFactors) ==
  IF naceFactors = NullRec THEN TRUE ELSE OrZero(naceFactors.scope_3_factor) = 0

Tier4Miss(naceFactors) == naceFactors = NullRec

\* Tier 4 and the final miss (lines 241-261, 308-321).
Tier4 ==
  /\ pc = "tier4"
  /\ \E r \in Outcomes(findNACEEmissionFactor(db, naceCode), NullRec) :
       /\ calls' = Append(calls, Call("findNACEEmissionFactor", <<naceCode>>, r))
       /\ IF Rejected(r) THEN Throw("findNACEEmissionFactor")
          ELSE /\ fallback' = IF Tier4Miss(r.value) THEN NotFound
                              ELSE Tier4Found(SyntheticTier4(r.value))
               /\ pc' = "fallback_return"
               /\ UNCHANGED << inputs, db, strategy, productHints, countryCode,
                               naceCode, mapping, hintIdx, factors, result, error >>

\* if (factor) { ... return {...} } after the resolver returned to a strategy block
\* (lines 434-451, 484-501, 515-532).
FallbackReturn ==
  /\ pc = "fallback_return"
  /\ strategy \in {"vat", "account", "supplier"}
  /\ IF fallback.factor # NullRec
     THEN result' = TieredResult(strategy, fallback) /\ pc' = AfterResolved(strategy)
     ELSE pc' = NextStrategy(strategy) /\ UNCHANGED result
  /\ UNCHANGED << inputs, db, strategy, productHints, countryCode, naceCode,
                  mapping, hintIdx, factors, fallback, calls, error >>

----------------------------------------------------------------------------
(* Strategy 2: account code mapping *)

\* line 455 and matchByAccountCode up to its lookup (lines 362-366)
Strategy2 ==
  /\ pc = "strategy2"
  /\ strategy' = "account"
  /\ pc' = IF Truthy(tx.account_code) /\ Truthy(companyId)
           THEN "getAccountMapping" ELSE NextStrategy("account")
  /\ UNCHANGED << inputs, db, productHints, countryCode, naceCode, mapping,
                  hintIdx, factors, fallback, calls, result, error >>

\* await db.getAccountMapping(companyId, account_code) and lines 367-372, 456-458, 475
GetAccountMapping ==
  /\ pc = "getAccountMapping"
  /\ \E r \in Outcomes(getAccountMapping(db, companyId, tx.account_code), NullRec) :
       /\ calls' = Append(calls, Call("getAccountMapping", <<companyId, tx.account_code>>, r))
       /\ IF Rejected(r) THEN Throw("getAccountMapping")
          ELSE LET m == matchByAccountCodeResult(r.value)
               IN  /\ mapping' = m
                   /\ naceCode' = m.naceCode
                   /\ pc' = IF Truthy(m.emissionFactorId) THEN "getEmissionFactorById"
                            ELSE IF Truthy(m.naceCode) THEN "fallback"
                            ELSE NextStrategy("account")
                   /\ UNCHANGED << inputs, db, strategy, productHints, countryCode,
                                   hintIdx, factors, fallback, result, error >>

\* await db.getEmissionFactorById(emissionFactorId) and lines 460-475
GetEmissionFactorById ==
  /\ pc = "getEmissionFactorById"
  /\ \E r \in Outcomes(getEmissionFactorById(db, mapping.emissionFactorId), NullRec) :
       /\ calls' = Append(calls, Call("getEmissionFactorById", <<mapping.emissionFactorId>>, r))
       /\ IF Rejected(r) THEN Throw("getEmissionFactorById")
          ELSE /\ IF r.value # NullRec
                  THEN result' = PreMappedResult(r.value) /\ pc' = AfterResolved("account")
                  ELSE /\ UNCHANGED result
                       /\ pc' = IF Truthy(naceCode) THEN "fallback"
                                ELSE NextStrategy("account")
               /\ UNCHANGED << inputs, db, strategy, productHints, countryCode,
                               naceCode, mapping, hintIdx, factors, fallback, error >>

----------------------------------------------------------------------------
(* Strategy 3: supplier name lookup *)

\* if (config.enableLearning && mapping.id) (line 391)
ShouldIncrementNever(cfg, m) == FALSE

ShouldIncrementRegardless(cfg, m) == Truthy(m.id)

ShouldIncrement(cfg, m) == cfg.enableLearning /\ Truthy(m.id)

\* What follows matchBySupplierName's return (lines 505-506).
AfterMatchBySupplierName(nace) ==
  /\ naceCode' = nace
  /\ pc' = IF Truthy(nace) THEN "fallback" ELSE NextStrategy("supplier")

\* line 505 and matchBySupplierName up to its lookup (lines 383-386)
Strategy3 ==
  /\ pc = "strategy3"
  /\ strategy' = "supplier"
  /\ IF tx.supplier_name = <<>>
     THEN AfterMatchBySupplierName(NULL)
     ELSE pc' = "getSupplierMapping" /\ UNCHANGED naceCode
  /\ UNCHANGED << inputs, db, productHints, countryCode, mapping,
                  hintIdx, factors, fallback, calls, result, error >>

\* await db.getSupplierMapping(normalized) and lines 388-395
GetSupplierMapping ==
  /\ pc = "getSupplierMapping"
  /\ LET normalized == normalizeSupplierName(tx.supplier_name)
     IN  \E r \in Outcomes(getSupplierMapping(db, normalized), NullRec) :
           /\ calls' = Append(calls, Call("getSupplierMapping", normalized, r))
           /\ IF Rejected(r) THEN Throw("getSupplierMapping")
              ELSE /\ mapping' = r.value
                   /\ IF r.value = NullRec
                      THEN AfterMatchBySupplierName(NULL)
                      ELSE IF ShouldIncrement(config, r.value)
                           THEN pc' = "incrementSupplierUsage" /\ UNCHANGED naceCode
                           ELSE AfterMatchBySupplierName(r.value.nace_code)
                   /\ UNCHANGED << inputs, db, strategy, productHints, countryCode,
                                   hintIdx, factors, fallback, result, error >>

\* await db.incrementSupplierUsage(mapping.id) and line 395
IncrementSupplierUsage ==
  /\ pc = "incrementSupplierUsage"
  /\ \E r \in Outcomes(NullRec, NullRec) :
       /\ calls' = Append(calls, Call("incrementSupplierUsage", <<mapping.id>>, r))
       /\ IF Rejected(r) THEN Throw("incrementSupplierUsage")
          ELSE /\ db' = [db EXCEPT !.timesUsed[mapping.id] = @ + 1]
               /\ AfterMatchBySupplierName(mapping.nace_code)
               /\ UNCHANGED << inputs, strategy, productHints, countryCode, mapping,
                               hintIdx, factors, fallback, result, error >>

\* lines 534-545
NoMatch ==
  /\ pc = "nomatch"
  /\ result' = NoMatchResult
  /\ pc' = "done"
  /\ UNCHANGED << inputs, db, strategy, productHints, countryCode, naceCode,
                  mapping, hintIdx, factors, fallback, calls, error >>

----------------------------------------------------------------------------
(* The transactions, configurations and repositories explored *)

NaceCodes == {"35.11", "49.41"}

VatNumbers ==
  { <<>>, <<"S","E","5">>, <<"d","e","7">>, <<"Z","Z","9">> }

SupplierNames == { <<>>, <<"A","c","m","e"," ","A","B">> }

Descriptions == { <<>>, <<"G","a","s"," ","w","i","n","d">> }

Transactions ==
  [ id : {"t1"},
    supplier_name : SupplierNames,
    vat_number : VatNumbers,
    account_code : {NULL, "4010"},
    amount : {2300},
    currency : {"EUR"},
    description : Descriptions,
    supplier_country : {NULL, "US", "SE"} ]

CompanyIds == {NULL, "c1"}

\* A configuration whose sums leave [0,1] on both sides.
SKEWED_CONFIG ==
  [ DEFAULT_CONFIG EXCEPT
      !.methodConfidence = [vat_lookup |-> 120, account_mapping |-> 110, supplier_mapping |-> 5],
      !.tierAdjustments  = [tier2 |-> 10, tier3 |-> -20, tier4 |-> -30] ]

Configs ==
  { DEFAULT_CONFIG,
    [DEFAULT_CONFIG EXCEPT !.cacheVAT = FALSE, !.enableLearning = FALSE],
    SKEWED_CONFIG }

EmptyTable == [k \in {} |-> NullRec]

\* What the repository holds for one NACE code, all of it for country SE:
\*   hinted  - a wind product and a generic row     gas     - a gas product and a generic row
\*   country - rows the single-row query misses     eu      - rows of other EU countries only
\*   global  - the aggregated NACE record only      none    - nothing
\*   unset, zero, negative - the aggregated NACE record only, its scope-3 value
\*                           being null, 0 and below 0
TierProfiles == {"hinted", "gas", "country", "eu", "global", "none", "unset", "zero", "negative"}

\* The second NACE code, the one account mappings name, is explored more coarsely.
TierProfiles2 == {"hinted", "global", "none"}

CountryRows(n, p) ==
  CASE p = "hinted"  -> << Row("ef-wind", n, "SE", "p40.11.e", 1), Row("ef-any", n, "SE", "p40.11.a", 4) >>
    [] p = "gas"     -> << Row("ef-gas", n, "SE", "p40.2", 3), Row("ef-any", n, "SE", "p40.11.a", 4) >>
    [] p = "country" -> << Row("ef-a", n, "SE", "p01.a", 1), Row("ef-b", n, "SE", "p01.b", 2) >>
    [] OTHER         -> <<>>

EURows(n, p) ==
  CASE p \in {"hinted", "gas", "country"} -> CountryRows(n, p) \o << Row("ef-de", n, "DE", "p01.a", 2) >>
    [] p = "eu" -> << Row("ef-de", n, "DE", "p01.a", 2), Row("ef-fr", n, "FR", "p01.a", 5) >>
    [] OTHER    -> <<>>

EmissionFactorTable(n, p) ==
  CASE p = "hinted" -> (<<n, "SE", "wind">> :> CountryRows(n, p)[1])
                         @@ (<<n, "SE", NoHint>> :> CountryRows(n, p)[2])
    [] p = "gas"    -> (<<n, "SE", "gas">> :> CountryRows(n, p)[1])
                         @@ (<<n, "SE", NoHint>> :> CountryRows(n, p)[2])
    [] OTHER        -> EmptyTable

EmissionFactorsTable(n, p) ==
  IF CountryRows(n, p) = <<>> THEN EmptyTable ELSE (<<n, "SE">> :> CountryRows(n, p))

EmissionFactorsEUTable(n, p) ==
  IF EURows(n, p) = <<>> THEN EmptyTable ELSE (n :> EURows(n, p))

NaceRecord(n, scope3) ==
  [ id |-> "nace-" \o n, nace_code |-> n, scope_3_factor |-> scope3 ]

NaceTable(n, p) ==
  CASE p = "none"     -> EmptyTable
    [] p = "unset"    -> (n :> NaceRecord(n, <<>>))
    [] p = "zero"     -> (n :> NaceRecord(n, <<0>>))
    [] p = "negative" -> (n :> NaceRecord(n, <<-4>>))
    [] OTHER          -> (n :> NaceRecord(n, <<4>>))

VatCacheChoices == {"none", "invalid", "valid", "no-nace"}

VatCacheTable(vat, c) ==
  CASE c = "none"    -> EmptyTable
    [] c = "invalid" -> (vat :> [vat_number |-> vat, country_code |-> "SE", nace_code |-> "35.11", is_valid |-> FALSE])
    [] c = "valid"   -> (vat :> [vat_number |-> vat, country_code |-> "SE", nace_code |-> "35.11", is_valid |-> TRUE])
    [] c = "no-nace" -> (vat :> [vat_number |-> vat, country_code |-> "SE", nace_code |-> NULL, is_valid |-> TRUE])

AccountChoices == {"none", "nace", "linked", "dangling"}

AccountTable(c) ==
  CASE c = "none"     -> EmptyTable
    [] c = "nace"     -> (<<"c1", "4010">> :> [nace_code |-> "49.41", emission_factor_id |-> NULL])
    [] c = "linked"   -> (<<"c1", "4010">> :> [nace_code |-> NULL, emission_factor_id |-> "ef-linked"])
    [] c = "dangling" -> (<<"c1", "4010">> :> [nace_code |-> "49.41", emission_factor_id |-> "ef-gone"])

\* "no-id" is a mapping for NACE 35.11 that carries no id.
SupplierChoices == {"none", "35.11", "49.41", "no-id"}

SupplierTable(c) ==
  CASE c = "none"  -> EmptyTable
    [] c = "no-id" -> (<<"a","c","m","e">> :> [id |-> NULL, supplier_name_normalized |-> <<"a","c","m","e">>, nace_code |-> "35.11"])
    [] OTHER       -> (<<"a","c","m","e">> :> [id |-> "s1", supplier_name_normalized |-> <<"a","c","m","e">>, nace_code |-> c])

MakeDb(vat, vc, am, sm, p1, p2) ==
  [ emissionFactor     |-> EmissionFactorTable("35.11", p1) @@ EmissionFactorTable("49.41", p2),
    emissionFactors    |-> EmissionFactorsTable("35.11", p1) @@ EmissionFactorsTable("49.41", p2),
    emissionFactorsEU  |-> EmissionFactorsEUTable("35.11", p1) @@ EmissionFactorsEUTable("49.41", p2),
    naceEmissionFactor |-> NaceTable("35.11", p1) @@ NaceTable("49.41", p2),
    emissionFactorById |-> ("ef-linked" :> Row("ef-linked", "49.41", "SE", "p60.2", 2)),
    vatCache           |-> VatCacheTable(vat, vc),
    accountMapping     |-> AccountTable(am),
    supplierMapping    |-> SupplierTable(sm),
    timesUsed          |-> ("s1" :> 0) ]

\* Repository content no step of the transaction can read is left out; when the
\* VAT strategy is bound to return, only the account mapping is varied behind it,
\* and a supplier mapping without an id, or an aggregated record with an
\* unusual value, is met by transactions that have a supplier name only.
Relevant(t, cid, cfg, vc, am, sm, p1, p2) ==
  /\ cfg # DEFAULT_CONFIG => (t.description = <<>> /\ t.supplier_name # <<>>)
  /\ ~cfg.cacheVAT => (t.vat_number # <<>> \/ sm # "none")
  /\ ~(t.account_code = NULL /\ cid = NULL)
  /\ t.supplier_country = "SE" => t.vat_number = <<"d","e","7">>
  /\ t.supplier_country = "US" => t.vat_number # <<"d","e","7">>
  /\ (cfg.cacheVAT /\ vc = "valid" /\ p1 # "none") => (sm = "none" /\ am # "dangling")
  /\ t.vat_number = <<>> => vc = "none"
  /\ ~(Truthy(t.account_code) /\ Truthy(cid)) => am = "none"
  /\ t.supplier_name = <<>> => sm = "none"
  /\ (vc # "valid" /\ sm \notin {"35.11", "no-id"}) => p1 = "none"
  /\ sm = "no-id" => (t.vat_number = <<>> /\ t.account_code = NULL)
  /\ p1 \in {"unset", "zero", "negative"}
       => (sm = "35.11" /\ t.vat_number = <<>> /\ t.account_code = NULL)
  /\ (am \notin {"nace", "dangling"} /\ sm # "49.41") => p2 = "none"

\* The locals of a matchTransaction call on entry.
EnterMatchTransaction ==
  /\ pc = "start"
  /\ strategy = "none"
  /\ productHints = <<>>
  /\ countryCode = NULL
  /\ naceCode = NULL
  /\ mapping = NullRec
  /\ hintIdx = 0
  /\ factors = <<>>
  /\ fallback = NullRec
  /\ calls = <<>>
  /\ result = NullRec
  /\ error = NULL

NotReturned == [done |-> FALSE]

\* No batch is being processed.
NoBatch ==
  /\ transactions = <<>>
  /\ batchIdx = 0
  /\ results = <<>>
  /\ batchPc = "none"

\* The call is the only one in progress.
NoOtherCall ==
  /\ suspended = <<>>
  /\ running = 1

\* No synchronous function is being applied.
NoApplication ==
  /\ fn = "none"
  /\ arg = <<>>
  /\ ret = NotReturned

\* One matchTransaction call, made directly.
Init ==
  \E t \in Transactions, cid \in CompanyIds, cfg \in Configs,
     vc \in VatCacheChoices, am \in AccountChoices, sm \in SupplierChoices,
     p1 \in TierProfiles, p2 \in TierProfiles2 :
    /\ Relevant(t, cid, cfg, vc, am, sm, p1, p2)
    /\ tx = t
    /\ companyId = cid
    /\ config = cfg
    /\ db = MakeDb(t.vat_number, vc, am, sm, p1, p2)
    /\ EnterMatchTransaction
    /\ NoBatch /\ NoOtherCall /\ NoApplication

Next ==
  \/ Begin
  \/ Strategy1
  \/ GetVATCache
  \/ EnterFallback
  \/ Tier1Hint
  \/ Tier1Any
  \/ Tier2
  \/ Tier3
  \/ Tier4
  \/ FallbackReturn
  \/ Strategy2
  \/ GetAccountMapping
  \/ GetEmissionFactorById
  \/ Strategy3
  \/ GetSupplierMapping
  \/ IncrementSupplierUsage
  \/ NoMatch

Spec == Init /\ [][Next]_vars

----------------------------------------------------------------------------
(* The exported synchronous functions, applied directly to an argument *)

Returning(v) == [done |-> TRUE, value |-> v]

ApplyExtractProductHints ==
  /\ fn = "extractProductHints" /\ ~ret.done
  /\ ret' = Returning(extractProductHints(arg))
  /\ UNCHANGED << tx, companyId, config, db, pc, strategy, productHints, countryCode,
                  naceCode, mapping, hintIdx, factors, fallback, calls, result, error,
                  transactions, batchIdx, results, batchPc, suspended, running, fn, arg >>

ApplyNormalizeSupplierName ==
  /\ fn = "normalizeSupplierName" /\ ~ret.done
  /\ ret' = Returning(normalizeSupplierName(arg))
  /\ UNCHANGED << tx, companyId, config, db, pc, strategy, productHints, countryCode,
                  naceCode, mapping, hintIdx, factors, fallback, calls, result, error,
                  transactions, batchIdx, results, batchPc, suspended, running, fn, arg >>

\* results.forEach(result => ...): the counters after one more result (lines 593-599)
CountResult(acc, r) ==
  [ tier1 |-> acc.tier1 + (IF r.tier = 1 THEN 1 ELSE 0),
    tier2 |-> acc.tier2 + (IF r.tier = 2 THEN 1 ELSE 0),
    tier3 |-> acc.tier3 + (IF r.tier = 3 THEN 1 ELSE 0),
    tier4 |-> acc.tier4 + (IF r.tier = 4 THEN 1 ELSE 0),
    unmatched |-> acc.unmatched + (IF r.tier \in {1, 2, 3, 4} THEN 0 ELSE 1),
    totalConfidence |-> acc.totalConfidence + r.confidence ]

RECURSIVE ForEachResult(_, _, _)
ForEachResult(entries, k, acc) ==
  IF k > Len(entries) THEN acc
  ELSE ForEachResult(entries, k + 1, CountResult(acc, entries[k].result))

RECURSIVE Pow10(_)
Pow10(d) == IF d = 0 THEN 1 ELSE 10 * Pow10(d - 1)

\* (num / den).toFixed(digits) for a value that is not negative: the decimal string
\* with that many fraction digits nearest to the value, as its whole part and its
\* fraction digits, and NaN for 0 / 0.  The value is a double: when the exact
\* quotient lies halfway between two such decimals the double may lie on either
\* side, which is what tieUp stands for.
ToFixed(num, den, digits, tieUp) ==
  IF den = 0 THEN [nan |-> TRUE, whole |-> 0, frac |-> 0, digits |-> digits]
  ELSE LET scaled == num * Pow10(digits)
           q      == scaled \div den
           twice  == 2 * (scaled % den)
           n      == IF twice > den \/ (twice = den /\ tieUp) THEN q + 1 ELSE q
       IN  [ nan |-> FALSE, whole |-> n \div Pow10(digits), frac |-> n % Pow10(digits),
             digits |-> digits ]

\* (count / total * 100).toFixed(1) + '%'
Percentage(count, total, tieUp) == ToFixed(count * 100, total, 1, tieUp)

\* the mean taken over the matched results only
MeanConfidenceOfMatched(totalConfidence, total, unmatched) ==
  [num |-> totalConfidence, den |-> 100 * (total - unmatched)]

\* totalConfidence / total, the confidences being in hundredths
MeanConfidence(totalConfidence, total, unmatched) ==
  [num |-> totalConfidence, den |-> 100 * total]

getMatchingStatistics(entries, tieUp) ==
  LET total == Len(entries)
      acc   == ForEachResult(entries, 1,
                 [ tier1 |-> 0, tier2 |-> 0, tier3 |-> 0, tier4 |-> 0,
                   unmatched |-> 0, totalConfidence |-> 0 ])
      mean  == MeanConfidence(acc.totalConfidence, total, acc.unmatched)
  IN  [ total         |-> total,
        matched       |-> total - acc.unmatched,
        unmatched     |-> acc.unmatched,
        tier1         |-> acc.tier1,
        tier2         |-> acc.tier2,
        tier3         |-> acc.tier3,
        tier4         |-> acc.tier4,
        matchRate     |-> Percentage(total - acc.unmatched, total, tieUp),
        avgConfidence |-> ToFixed(mean.num, mean.den, 2, tieUp),
        tier1Rate     |-> Percentage(acc.tier1, total, tieUp),
        tier2Rate     |-> Percentage(acc.tier2, total, tieUp),
        tier3Rate     |-> Percentage(acc.tier3, total, tieUp),
        tier4Rate     |-> Percentage(acc.tier4, total, tieUp) ]

ApplyGetMatchingStatistics ==
  /\ fn = "getMatchingStatistics" /\ ~ret.done
  /\ \E tieUp \in BOOLEAN : ret' = Returning(getMatchingStatistics(arg, tieUp))
  /\ UNCHANGED << tx, companyId, config, db, pc, strategy, productHints, countryCode,
                  naceCode, mapping, hintIdx, factors, fallback, calls, result, error,
                  transactions, batchIdx, results, batchPc, suspended, running, fn, arg >>

\* The result maps explored: up to MaxResults results, so many of each tier, the
\* matched ones with the default confidence of one method.
MaxResults == 10

\* A MatchResult of the given tier as a strategy returns it under DEFAULT_CONFIG.
ResultOfTier(tier, method) ==
  IF tier = TierNull THEN NoMatchResult
  ELSE [ NoMatchResult EXCEPT
           !.tier = tier,
           !.method = method,
           !.confidence = Clamp01(DEFAULT_CONFIG.methodConfidence[method]
                                  + TierAdjustment(DEFAULT_CONFIG, tier)),
           !.fallbackApplied = FallbackApplied(tier) ]

\* The tier of the i-th result when the map holds c[t] results of tier t, in tier
\* order, those without a tier last.
TierAt(c, i) ==
  IF i <= c[1] THEN 1
  ELSE IF i <= c[1] + c[2] THEN 2
  ELSE IF i <= c[1] + c[2] + c[3] THEN 3
  ELSE IF i <= c[1] + c[2] + c[3] + c[4] THEN 4
  ELSE TierNull

ResultMap(c, method) ==
  [ i \in 1..(c[1] + c[2] + c[3] + c[4] + c[5]) |->
      [ id |-> "t" \o ToString(i), result |-> ResultOfTier(TierAt(c, i), method) ] ]

ResultMaps ==
  { ResultMap(c, method) :
      c \in { d \in [1..5 -> 0..MaxResults] : d[1] + d[2] + d[3] + d[4] + d[5] <= MaxResults },
      method \in {"vat_lookup", "supplier_mapping"} }

\* The descriptions explored: the words below, up to MaxWords of them, one space apart.
MaxWords == 2

EXAMPLE_DESCRIPTION == <<"M","o","n","t","h","l","y"," ","e","l","e","c","t","r","i","c","i","t","y"," ","-"," ","w","i","n","d"," ","p","o","w","e","r">>

HintWords ==
  UNION { HINT_RULES[k].keys : k \in DOMAIN HINT_RULES }
  \cup { <<"W","I","N","D">>, <<"E","l","e","c","t","r","i","c","i","t","y">>, <<"M","o","n","t","h","l","y">>, <<"p","o","w","e","r">>, <<"-">> }

RECURSIVE JoinWords(_)
JoinWords(ws) ==
  IF ws = <<>> THEN <<>>
  ELSE IF Len(ws) = 1 THEN ws[1]
  ELSE ws[1] \o <<" ">> \o JoinWords(Tail(ws))

HintDescriptions ==
  { EXAMPLE_DESCRIPTION }
  \cup { JoinWords(ws) : ws \in UNION { [1..n -> HintWords] : n \in 0..MaxWords } }

\* The supplier names explored: a stem, optionally a legal-form token after it,
\* with up to MaxPad spaces before, between and after.
MaxPad == 1

NameStems == { <<"V","a","t","t","e","n","f","a","l","l">>,
    <<"A","C","M","E">>,
    <<"S","a","a","b">>,
    <<"V","i","s","a">>,
    <<"A","c","m","e"," ","A","B">>,
    <<"B","o">> }

NameTails ==
  { <<>>, <<"G","m","b","H">> } \cup COMPANY_SUFFIXES
  \cup { toUpperCase(x) : x \in COMPANY_SUFFIXES }

Spaces(n) == [i \in 1..n |-> " "]

SupplierNameInputs ==
  { Spaces(a) \o stem \o Spaces(b) \o tail \o Spaces(c) :
      a \in 0..MaxPad, b \in 0..MaxPad, c \in 0..MaxPad,
      stem \in NameStems, tail \in NameTails }

\* No matchTransaction call has been entered.
NoLocals ==
  /\ pc = "none"
  /\ strategy = "none"
  /\ productHints = <<>>
  /\ countryCode = NULL
  /\ naceCode = NULL
  /\ mapping = NullRec
  /\ hintIdx = 0
  /\ factors = <<>>
  /\ fallback = NullRec
  /\ calls = <<>>
  /\ result = NullRec
  /\ error = NULL

NoCall ==
  /\ tx = NullRec /\ companyId = NULL /\ config = DEFAULT_CONFIG
  /\ db = NullRec
  /\ NoLocals

InitPure ==
  /\ NoCall /\ NoBatch /\ NoOtherCall
  /\ ret = NotReturned
  /\ \/ fn = "extractProductHints" /\ arg \in HintDescriptions
     \/ fn = "normalizeSupplierName" /\ arg \in SupplierNameInputs
     \/ fn = "getMatchingStatistics" /\ arg \in ResultMaps

NextPure ==
  \/ ApplyExtractProductHints
  \/ ApplyNormalizeSupplierName
  \/ ApplyGetMatchingStatistics

SpecPure == InitPure /\ [][NextPure]_vars

----------------------------------------------------------------------------
(* batchMatchTransactions *)

\* One repository for all transactions of a batch: NACE 35.11 has product rows for
\* SE, 49.41 has SE rows that only the multi-row query returns, 01.11 has the
\* aggregated record only.
SharedDb ==
  [ emissionFactor     |-> EmissionFactorTable("35.11", "hinted"),
    emissionFactors    |-> EmissionFactorsTable("35.11", "hinted")
                           @@ EmissionFactorsTable("49.41", "country"),
    emissionFactorsEU  |-> EmissionFactorsEUTable("35.11", "hinted")
                           @@ EmissionFactorsEUTable("49.41", "country"),
    naceEmissionFactor |-> NaceTable("35.11", "hinted") @@ NaceTable("49.41", "country")
                           @@ NaceTable("01.11", "global"),
    emissionFactorById |-> ("ef-linked" :> Row("ef-linked", "49.41", "SE", "p60.2", 2)),
    vatCache           |-> VatCacheTable(<<"S","E","5">>, "valid"),
    accountMapping     |-> (<<"c1", "4010">> :> [nace_code |-> NULL, emission_factor_id |-> "ef-linked"])
                           @@ (<<"c1", "5010">> :> [nace_code |-> "35.11", emission_factor_id |-> NULL])
                           @@ (<<"c1", "6010">> :> [nace_code |-> "49.41", emission_factor_id |-> NULL]),
    supplierMapping    |-> (<<"a","c","m","e">> :> [id |-> "s1", supplier_name_normalized |-> <<"a","c","m","e">>,
                                         nace_code |-> "01.11"]),
    timesUsed          |-> ("s1" :> 0) ]

BlankTransaction ==
  [ id |-> "t0", supplier_name |-> <<>>, vat_number |-> <<>>, account_code |-> NULL,
    amount |-> 2300, currency |-> "EUR", description |-> <<>>, supplier_country |-> NULL ]

\* Transactions that between them take every path of matchTransaction: resolved by
\* the VAT cache with a product hint, by a pre-linked account mapping, by an
\* account NACE code at tier 1 (under the id of the first), by an account NACE
\* code at tier 3, by the supplier mapping at tier 4, and not at all.
SampleTransactions ==
  { [ BlankTransaction EXCEPT !.id = "t1", !.supplier_name = <<"A","c","m","e"," ","A","B">>,
        !.vat_number = <<"S","E","5">>, !.description = <<"G","a","s"," ","w","i","n","d">> ],
    [ BlankTransaction EXCEPT !.id = "t2", !.account_code = "4010" ],
    [ BlankTransaction EXCEPT !.id = "t1", !.account_code = "5010", !.supplier_country = "SE" ],
    [ BlankTransaction EXCEPT !.id = "t3", !.vat_number = <<"d","e","7">>, !.account_code = "6010" ],
    [ BlankTransaction EXCEPT !.id = "t4", !.supplier_name = <<"A","c","m","e"," ","A","B">> ],
    [ BlankTransaction EXCEPT !.id = "t5", !.supplier_name = <<"S","a","a","b">> ] }

MaxBatch == 2

Batches == UNION { [1..n -> SampleTransactions] : n \in 0..MaxBatch }

\* results.set(id, r): a key the Map holds keeps its place and takes the new value.
MapSetKeepingFirst(entries, id, r) ==
  IF \E i \in DOMAIN entries : entries[i].id = id
  THEN entries
  ELSE Append(entries, [id |-> id, result |-> r])

MapSet(entries, id, r) ==
  IF \E i \in DOMAIN entries : entries[i].id = id
  THEN [ i \in DOMAIN entries |->
           IF entries[i].id = id THEN [id |-> id, result |-> r] ELSE entries[i] ]
  ELSE Append(entries, [id |-> id, result |-> r])

\* await ends the loop and the function when matchTransaction rejected.
AwaitOutcome(callPc) == IF callPc = "failed" THEN "throw" ELSE "set"

\* for (const transaction of transactions): matchTransaction is entered (line 577)
BatchCall ==
  /\ batchPc = "loop" /\ batchIdx <= Len(transactions)
  /\ tx' = transactions[batchIdx]
  /\ pc' = "start"
  /\ strategy' = "none"
  /\ productHints' = <<>>
  /\ countryCode' = NULL
  /\ naceCode' = NULL
  /\ mapping' = NullRec
  /\ hintIdx' = 0
  /\ factors' = <<>>
  /\ fallback' = NullRec
  /\ calls' = <<>>
  /\ result' = NullRec
  /\ error' = NULL
  /\ batchPc' = "awaiting"
  /\ UNCHANGED << companyId, config, db, transactions, batchIdx, results,
                  suspended, running, fn, arg, ret >>

\* const result = await matchTransaction(...); results.set(transaction.id, result)
BatchSet ==
  /\ batchPc = "awaiting" /\ pc \in {"done", "failed"}
  /\ AwaitOutcome(pc) = "set"
  /\ results' = MapSet(results, tx.id, result)
  /\ batchIdx' = batchIdx + 1
  /\ batchPc' = "loop"
  /\ UNCHANGED << tx, companyId, config, db, pc, strategy, productHints, countryCode,
                  naceCode, mapping, hintIdx, factors, fallback, calls, result, error,
                  transactions, suspended, running, fn, arg, ret >>

\* The rejection of matchTransaction leaves the loop and batchMatchTransactions:
\* there is no try/catch, the caller gets the rejection and no Map.
BatchThrow ==
  /\ batchPc = "awaiting" /\ pc \in {"done", "failed"}
  /\ AwaitOutcome(pc) = "throw"
  /\ batchPc' = "failed"
  /\ UNCHANGED << tx, companyId, config, db, pc, strategy, productHints, countryCode,
                  naceCode, mapping, hintIdx, factors, fallback, calls, result, error,
                  transactions, batchIdx, results, suspended, running, fn, arg, ret >>

\* return results
BatchReturn ==
  /\ batchPc = "loop" /\ batchIdx > Len(transactions)
  /\ batchPc' = "returned"
  /\ UNCHANGED << tx, companyId, config, db, pc, strategy, productHints, countryCode,
                  naceCode, mapping, hintIdx, factors, fallback, calls, result, error,
                  transactions, batchIdx, results, suspended, running, fn, arg, ret >>

InitBatch ==
  /\ transactions \in Batches
  /\ companyId = "c1"
  /\ config = DEFAULT_CONFIG
  /\ db = SharedDb
  /\ tx = NullRec
  /\ NoLocals
  /\ batchIdx = 1
  /\ results = <<>>
  /\ batchPc = "loop"
  /\ NoOtherCall /\ NoApplication

NextBatch ==
  \/ BatchCall
  \/ Next
  \/ BatchSet
  \/ BatchThrow
  \/ BatchReturn

SpecBatch == InitBatch /\ [][NextBatch]_vars

----------------------------------------------------------------------------
(* One matchTransaction call that is left to run *)

\* A transaction that has every field the strategies read and a description
\* with two product hints.
FullTransaction ==
  [ BlankTransaction EXCEPT
      !.id = "t1",
      !.supplier_name = <<"A","c","m","e"," ","A","B">>,
      !.vat_number = <<"S","E","5">>,
      !.account_code = "4010",
      !.description = <<"G","a","s"," ","w","i","n","d">> ]

\* A direct call for it, over repositories that between them let each strategy
\* return, miss and fall through.
InitFair ==
  \E vc \in VatCacheChoices, am \in {"nace", "linked", "dangling"}, sm \in SupplierChoices,
     p1 \in {"gas", "none"}, p2 \in {"global", "none"} :
    /\ Relevant(FullTransaction, "c1", DEFAULT_CONFIG, vc, am, sm, p1, p2)
    /\ tx = FullTransaction
    /\ companyId = "c1"
    /\ config = DEFAULT_CONFIG
    /\ db = MakeDb(FullTransaction.vat_number, vc, am, sm, p1, p2)
    /\ EnterMatchTransaction
    /\ NoBatch /\ NoOtherCall /\ NoApplication

\* Every step is eventually taken: the code between two awaits runs on, and
\* every awaited repository call settles.
SpecFair == InitFair /\ [][Next]_vars /\ WF_vars(Next)

----------------------------------------------------------------------------
(* Concurrent matchTransaction calls: Promise.all(transactions.map(tx =>    *)
(* matchTransaction(tx, db))) over one repository                          *)

\* The parameters and locals of the running call.
Locals ==
  [ tx |-> tx, companyId |-> companyId, config |-> config, pc |-> pc,
    strategy |-> strategy, productHints |-> productHints, countryCode |-> countryCode,
    naceCode |-> naceCode, mapping |-> mapping, hintIdx |-> hintIdx,
    factors |-> factors, fallback |-> fallback, calls |-> calls, result |-> result,
    error |-> error ]

\* A call that has been made and has not run yet.
Entered(t, cid, cfg) ==
  [ tx |-> t, companyId |-> cid, config |-> cfg, pc |-> "start",
    strategy |-> "none", productHints |-> <<>>, countryCode |-> NULL,
    naceCode |-> NULL, mapping |-> NullRec, hintIdx |-> 0,
    factors |-> <<>>, fallback |-> NullRec, calls |-> <<>>, result |-> NullRec,
    error |-> NULL ]

\* The positions at which a call awaits the repository.
RepositoryAwaits ==
  { "getVATCache", "tier1_hint", "tier1_any", "tier2", "tier3", "tier4",
    "getAccountMapping", "getEmissionFactorById", "getSupplierMapping",
    "incrementSupplierUsage" }

\* countryCode declared outside the function: one variable for all calls
CountryOfCallShared(saved) == countryCode

\* let countryCode (line 418) belongs to the call that declared it
CountryOfCall(saved) == saved.countryCode

\* The running call awaits the repository, or is over, and another call gets its
\* turn.  The steps between two repository calls touch nothing but locals, so the
\* turns taken at repository calls give every interleaving of those calls.
Resume ==
  /\ pc \in RepositoryAwaits \cup {"done", "failed"}
  /\ \E c \in DOMAIN suspended :
       /\ c # running
       /\ suspended[c].pc \notin {"done", "failed"}
       /\ suspended' = [suspended EXCEPT ![running] = Locals, ![c] = NullRec]
       /\ running' = c
       /\ tx' = suspended[c].tx
       /\ companyId' = suspended[c].companyId
       /\ config' = suspended[c].config
       /\ pc' = suspended[c].pc
       /\ strategy' = suspended[c].strategy
       /\ productHints' = suspended[c].productHints
       /\ countryCode' = CountryOfCall(suspended[c])
       /\ naceCode' = suspended[c].naceCode
       /\ mapping' = suspended[c].mapping
       /\ hintIdx' = suspended[c].hintIdx
       /\ factors' = suspended[c].factors
       /\ fallback' = suspended[c].fallback
       /\ calls' = suspended[c].calls
       /\ result' = suspended[c].result
       /\ error' = suspended[c].error
  /\ UNCHANGED << db, transactions, batchIdx, results, batchPc, fn, arg, ret >>

\* The integration guide's configuration with other per-tier confidence levels.
CUSTOM_LEVELS_CONFIG ==
  [ DEFAULT_CONFIG EXCEPT
      !.confidenceLevels = [tier1 |-> 98, tier2 |-> 90, tier3 |-> 80, tier4 |-> 70] ]

\* The calls made side by side: the sample transactions, one of them also with
\* another amount, currency and description, under several configurations.
CallInputs ==
  << [ tx |-> [ BlankTransaction EXCEPT !.id = "t1", !.supplier_name = <<"A","c","m","e"," ","A","B">>,
                  !.vat_number = <<"S","E","5">>, !.description = <<"G","a","s"," ","w","i","n","d">> ],
       config |-> DEFAULT_CONFIG ],
     [ tx |-> [ BlankTransaction EXCEPT !.id = "t1", !.supplier_name = <<"A","c","m","e"," ","A","B">>,
                  !.vat_number = <<"S","E","5">>, !.description = <<"G","a","s"," ","w","i","n","d">> ],
       config |-> CUSTOM_LEVELS_CONFIG ],
     [ tx |-> [ BlankTransaction EXCEPT !.id = "t6", !.supplier_name = <<"A","c","m","e"," ","A","B">>,
                  !.vat_number = <<"S","E","5">>, !.amount = 50, !.currency = "SEK" ],
       config |-> CUSTOM_LEVELS_CONFIG ],
     [ tx |-> [ BlankTransaction EXCEPT !.id = "t2", !.account_code = "4010" ],
       config |-> SKEWED_CONFIG ],
     [ tx |-> [ BlankTransaction EXCEPT !.id = "t1", !.account_code = "5010",
                  !.supplier_country = "SE" ],
       config |-> SKEWED_CONFIG ],
     [ tx |-> [ BlankTransaction EXCEPT !.id = "t3", !.vat_number = <<"d","e","7">>,
                  !.account_code = "6010" ],
       config |-> DEFAULT_CONFIG ],
     [ tx |-> [ BlankTransaction EXCEPT !.id = "t4", !.supplier_name = <<"A","c","m","e"," ","A","B">> ],
       config |-> DEFAULT_CONFIG ],
     [ tx |-> [ BlankTransaction EXCEPT !.id = "t5", !.supplier_name = <<"S","a","a","b">> ],
       config |-> DEFAULT_CONFIG ] >>

MaxCalls == 2

\* The calls being interchangeable, a choice of calls is listed in one order only.
CallChoices ==
  UNION { { f \in [1..n -> DOMAIN CallInputs] : \A i, j \in 1..n : i < j => f[i] <= f[j] } :
          n \in 1..MaxCalls }

InitConcurrent ==
  \E f \in CallChoices :
    /\ tx = CallInputs[f[1]].tx
    /\ companyId = "c1"
    /\ config = CallInputs[f[1]].config
    /\ db = SharedDb
    /\ EnterMatchTransaction
    /\ running = 1
    /\ suspended = [ c \in DOMAIN f |->
                       IF c = 1 THEN NullRec
                       ELSE Entered(CallInputs[f[c]].tx, "c1", CallInputs[f[c]].config) ]
    /\ NoBatch /\ NoApplication

NextConcurrent ==
  \/ Next
  \/ Resume

SpecConcurrent == InitConcurrent /\ [][NextConcurrent]_vars

----------------------------------------------------------------------------
(* What the claims speak of, stated from the inputs and the repository *)

\* The hints of the transaction's description and the country its prefix names.
HintsOfTx == extractProductHints(tx.description)
PrefixCountry == getCountryFromVAT(tx.vat_number)

\* The valid VAT-cache entry the VAT strategy may use, NullRec if there is none.
UsableVatEntry ==
  IF tx.vat_number # <<>> /\ config.cacheVAT
     /\ getVATCache(db, tx.vat_number) # NullRec
     /\ getVATCache(db, tx.vat_number).is_valid
  THEN getVATCache(db, tx.vat_number) ELSE NullRec

\* The country in effect once the VAT block is over.
CountryInEffect ==
  IF Truthy(tx.supplier_country) THEN tx.supplier_country
  ELSE IF tx.vat_number = <<>> THEN tx.supplier_country
  ELSE IF Truthy(PrefixCountry) THEN PrefixCountry
  ELSE IF UsableVatEntry # NullRec THEN UsableVatEntry.country_code
  ELSE tx.supplier_country

\* Does some tier-1 query for (n, c), with one of the hints or with none, find a row?
Tier1Available(n, c, hints) ==
  \/ \E i \in DOMAIN hints : findEmissionFactor(db, n, c, hints[i]) # NullRec
  \/ findEmissionFactor(db, n, c, NoHint) # NullRec

\* The tier the fallback order prescribes for NACE code n and country c.
TierFor(n, c, hints) ==
  IF Truthy(c) /\ Tier1Available(n, c, hints) THEN 1
  ELSE IF Truthy(c) /\ findEmissionFactors(db, n, c) # <<>> THEN 2
  ELSE IF findEmissionFactorsEU(db, n) # <<>> THEN 3
  ELSE IF findNACEEmissionFactor(db, n) # NullRec THEN 4
  ELSE TierNull

VatNace == IF UsableVatEntry # NullRec THEN UsableVatEntry.nace_code ELSE NULL

VatResolves ==
  Truthy(VatNace) /\ TierFor(VatNace, CountryInEffect, HintsOfTx) # TierNull

AccountEntry ==
  IF Truthy(tx.account_code) /\ Truthy(companyId)
  THEN getAccountMapping(db, companyId, tx.account_code) ELSE NullRec

AccountResolves ==
  /\ AccountEntry # NullRec
  /\ \/ /\ Truthy(AccountEntry.emission_factor_id)
        /\ getEmissionFactorById(db, AccountEntry.emission_factor_id) # NullRec
     \/ /\ Truthy(AccountEntry.nace_code)
        /\ TierFor(AccountEntry.nace_code, CountryInEffect, HintsOfTx) # TierNull

SupplierEntry ==
  IF tx.supplier_name # <<>>
  THEN getSupplierMapping(db, normalizeSupplierName(tx.supplier_name)) ELSE NullRec

SupplierResolves ==
  /\ SupplierEntry # NullRec
  /\ Truthy(SupplierEntry.nace_code)
  /\ TierFor(SupplierEntry.nace_code, CountryInEffect, HintsOfTx) # TierNull

Returned == pc = "done"

----------------------------------------------------------------------------
(* Claims *)

\* C1: strategy priority is strict: when the VAT strategy resolves to a factor and
\* the account-code mapping would resolve too, the result returned is the VAT one.
C1_VatBeatsAccount ==
  (Returned /\ VatResolves /\ AccountResolves) => result.method = "vat_lookup"

C1_Witness ==
  Returned /\ VatResolves /\ AccountResolves /\ result.method = "vat_lookup"

\* The strategy a repository operation belongs to when it is not a factor query.
OpsOfAccount == {"getAccountMapping", "getEmissionFactorById"}
OpsOfSupplier == {"getSupplierMapping", "incrementSupplierUsage"}

RankOfStrategy(s) ==
  CASE s = "vat" -> 1 [] s = "account" -> 2 [] s = "supplier" -> 3 [] OTHER -> 4

RankOfMethod(m) ==
  CASE m = "vat_lookup" -> 1 [] m = "account_mapping" -> 2
    [] m = "supplier_mapping" -> 3 [] OTHER -> 4

\* The rank of the strategy a logged call was issued by: by its operation where
\* that decides it, by the block that issued it for the factor queries.
RankOfCall(c) ==
  CASE c.op = "getVATCache" -> 1
    [] c.op \in OpsOfAccount -> 2
    [] c.op \in OpsOfSupplier -> 3
    [] OTHER -> RankOfStrategy(c.strategy)

\* C2: the repository calls of one matchTransaction come in the order VAT, account
\* code, supplier name, and once a strategy has produced a non-null factor the call
\* is over: no call of a later strategy is in the log and nothing more is issued.
C2_NoCallAfterResolution ==
  /\ \A i, j \in DOMAIN calls : i < j => RankOfCall(calls[i]) <= RankOfCall(calls[j])
  /\ result # NullRec =>
       /\ pc = "done"
       /\ \A i \in DOMAIN calls : RankOfCall(calls[i]) <= RankOfMethod(result.method)

C2_Witness ==
  /\ Returned /\ result.method = "account_mapping"
  /\ SupplierResolves
  /\ \E i \in DOMAIN calls : calls[i].op = "getVATCache"

\* The tier-1 precondition of C3 read literally: the repository holds a factor that
\* a tier-1 query for the prefix's country can return.
Tier1FactorPresent ==
  \E n \in NaceCodes : Tier1Available(n, PrefixCountry, HintsOfTx)

VatTier1Result ==
  /\ result.method = "vat_lookup"
  /\ result.tier = 1
  /\ result.confidence = 95
  /\ result.fallbackApplied = FALSE

\* C3 as the specification states it: a recognized VAT prefix and a tier-1-eligible
\* factor in the repository give, under the default configuration, method
\* vat_lookup, tier 1, confidence 0.95 and fallbackApplied false.
C3_Original ==
  (Returned /\ config = DEFAULT_CONFIG /\ Truthy(PrefixCountry) /\ Tier1FactorPresent)
    => VatTier1Result

\* C3 as amended: the same result, for a transaction with a recognized VAT prefix
\* whose identifier has a valid VAT-cache entry carrying a NACE code, when a tier-1
\* query for that NACE code and the country in effect (the transaction's
\* supplier_country if it has one, else the prefix's country) finds a factor.
C3_VatTier1 ==
  ( /\ Returned /\ config = DEFAULT_CONFIG /\ Truthy(PrefixCountry)
    /\ Truthy(VatNace)
    /\ Tier1Available(VatNace,
                      IF Truthy(tx.supplier_country) THEN tx.supplier_country
                      ELSE PrefixCountry,
                      HintsOfTx) )
    => VatTier1Result

C3_Witness ==
  /\ Returned /\ config = DEFAULT_CONFIG /\ Truthy(PrefixCountry) /\ Truthy(VatNace)
  /\ ~Truthy(tx.supplier_country)
  /\ Tier1Available(VatNace, PrefixCountry, HintsOfTx)
  /\ VatTier1Result

\* clamp(base + penalty, 0, 1) in hundredths, penalty[1] being 0
PenaltyOfTier(cfg, tier) ==
  IF tier = 1 THEN 0
  ELSE IF tier = 2 THEN cfg.tierAdjustments.tier2
  ELSE IF tier = 3 THEN cfg.tierAdjustments.tier3
  ELSE cfg.tierAdjustments.tier4

ClampedSum(cfg, method, tier) ==
  LET x == cfg.methodConfidence[method] + PenaltyOfTier(cfg, tier)
  IN  IF x < 0 THEN 0 ELSE IF x > 100 THEN 100 ELSE x

\* C4: every matched result has confidence clamp(methodConfidence[method] +
\* penalty[tier], 0, 1), the pre-linked account path included.
C4_ConfidenceIsClampedSum ==
  (result # NullRec /\ result.method # "none")
    => result.confidence = ClampedSum(config, result.method, result.tier)

\* C5: the confidence of every MatchResult lies in [0, 1].
C5_ConfidenceInUnitInterval ==
  result # NullRec => (0 <= result.confidence /\ result.confidence <= 100)

\* The resolver has returned to its caller with `fallback`.
ResolverReturned == pc = "fallback_return"

\* C6: the tier returned is the one the fallback order prescribes: 2 only when no
\* tier-1 query for the NACE code and country finds a row, 3 only when the tier-2
\* query is empty too or no country is known, 4 only when the EU query is empty,
\* and factor null with tier null only when the tier-4 lookup finds nothing either.
C6_TierOrder ==
  ResolverReturned =>
    LET noTier1 == ~Truthy(countryCode)
                   \/ ~Tier1Available(naceCode, countryCode, productHints)
        noTier2 == ~Truthy(countryCode)
                   \/ findEmissionFactors(db, naceCode, countryCode) = <<>>
        noTier3 == findEmissionFactorsEU(db, naceCode) = <<>>
        noTier4 == findNACEEmissionFactor(db, naceCode) = NullRec
    IN  /\ fallback.tier \in {1, 2, 3, 4, TierNull}
        /\ fallback.tier = 1 => ~noTier1
        /\ fallback.tier = 2 => (Truthy(countryCode) /\ noTier1 /\ ~noTier2)
        /\ fallback.tier = 3 => (noTier1 /\ noTier2 /\ ~noTier3)
        /\ fallback.tier = 4 => (noTier1 /\ noTier2 /\ noTier3 /\ ~noTier4)
        /\ fallback.tier = TierNull => (noTier1 /\ noTier2 /\ noTier3 /\ noTier4)
        /\ (fallback.factor = NullRec) <=> (fallback.tier = TierNull)

C6_Witness ==
  /\ ResolverReturned /\ fallback.tier = 2
  /\ Len(productHints) > 0
  /\ findEmissionFactorsEU(db, naceCode) # <<>>

\* The rows the tier-2 / tier-3 query of the resolver's arguments returns.
RowsOfTier(tier) ==
  IF tier = 2 THEN findEmissionFactors(db, naceCode, countryCode)
  ELSE findEmissionFactorsEU(db, naceCode)

RECURSIVE TotalOf(_)
TotalOf(rows) ==
  IF rows = <<>> THEN 0
  ELSE Head(rows).emission_factor_kgco2e_per_eur.num + TotalOf(Tail(rows))

\* C7: the intensity of a synthesized tier-2 or tier-3 factor is the sum of the
\* intensities of the rows its query returned divided by their number, and the
\* returned rows are left as the repository gave them.
C7_UnweightedMean ==
  (ResolverReturned /\ fallback.tier \in {2, 3}) =>
    LET rows == RowsOfTier(fallback.tier)
        mean == fallback.factor.emission_factor_kgco2e_per_eur
    IN  /\ rows # <<>>
        /\ mean.den # 0
        /\ mean.num * Len(rows) = TotalOf(rows) * mean.den
        /\ factors = rows

C7_Witness ==
  /\ ResolverReturned /\ fallback.tier = 3
  /\ Len(factors) >= 2
  /\ factors[1].emission_factor_kgco2e_per_eur # factors[2].emission_factor_kgco2e_per_eur
  /\ ~RatEq(fallback.factor.emission_factor_kgco2e_per_eur,
            factors[1].emission_factor_kgco2e_per_eur)

\* C8: fallbackApplied is true exactly when the tier is 2, 3 or 4; it is false for
\* tier 1 and for the unmatched result.
C8_FallbackFlag ==
  result # NullRec => (result.fallbackApplied <=> result.tier \in {2, 3, 4})

C8_Witness ==
  Returned /\ result.tier = 2 /\ result.fallbackApplied

\* C9: when no strategy yields a factor the terminal result is returned (all of
\* factor, NACE, country and product null, confidence 0, tier null, method none,
\* the fixed reasoning, fallbackApplied false), and method none is returned only then.
C9_NoMatchExactlyWhenNothingResolves ==
  Returned =>
    /\ (result.method = "none") <=> (~VatResolves /\ ~AccountResolves /\ ~SupplierResolves)
    /\ result.method = "none" =>
         /\ result.emissionFactor = NullRec
         /\ result.naceCode = NULL
         /\ result.countryCode = NULL
         /\ result.productCode = NULL
         /\ result.confidence = 0
         /\ result.tier = TierNull
         /\ result.fallbackApplied = FALSE
         /\ result.reasoning = <<"No automatic match found. Manual assignment required.">>

C9_Witness ==
  /\ Returned /\ result.method = "none"
  /\ tx.vat_number = <<>> /\ ~Truthy(tx.account_code)
  /\ tx.supplier_name # <<>> /\ SupplierEntry = NullRec

\* C10: a repository call that fails ends matchTransaction with that failure: it
\* is the last call issued, no MatchResult is returned and nothing runs after it.
C10_FailurePropagates ==
  /\ \A i \in DOMAIN calls :
       ~calls[i].ok =>
         (i = Len(calls) /\ pc = "failed" /\ error = calls[i].op /\ result = NullRec)
  /\ pc = "failed" => (calls # <<>> /\ ~calls[Len(calls)].ok)

C10_Witness ==
  /\ pc = "failed" /\ error = "findNACEEmissionFactor" /\ strategy = "account"
  /\ \E i \in DOMAIN calls : calls[i].op = "getVATCache"
  /\ SupplierResolves

\* Was the usage increment issued, and did every other call of the run succeed?
IncrementIssued == \E i \in DOMAIN calls : calls[i].op = "incrementSupplierUsage"

OnlyIncrementFailed ==
  \A i \in DOMAIN calls : ~calls[i].ok => calls[i].op = "incrementSupplierUsage"

\* C12: the usage increment is a best-effort side effect: whether it succeeds or
\* fails, a call whose supplier mapping tiers to a factor ends with the
\* supplier_mapping result of the tier the fallback order prescribes.
C12_IncrementIsBestEffort ==
  (pc \in {"done", "failed"} /\ IncrementIssued /\ OnlyIncrementFailed /\ SupplierResolves)
    => /\ pc = "done"
       /\ result.method = "supplier_mapping"
       /\ result.tier = TierFor(SupplierEntry.nace_code, CountryInEffect, HintsOfTx)

\* The VAT block is about to hand its NACE code and country to the tier resolver.
VatHandsOver == pc = "fallback" /\ strategy = "vat"

\* The country matchByVAT itself settles on: the prefix's, else the cache entry's.
VatOwnCountry ==
  IF Truthy(PrefixCountry) THEN PrefixCountry ELSE UsableVatEntry.country_code

\* C16 as the specification states it: the country the VAT strategy hands to the
\* resolver is the prefix's whenever the prefix is recognized and the cache's only
\* otherwise, whatever supplier_country the transaction carries.
C16_Original == VatHandsOver => countryCode = VatOwnCountry

\* C16 as amended: that holds for a transaction without a supplier_country; a
\* supplier_country the transaction carries is the country handed to the resolver.
C16_VatCountry ==
  VatHandsOver =>
    countryCode = IF Truthy(tx.supplier_country) THEN tx.supplier_country
                  ELSE VatOwnCountry

C16_Witness ==
  /\ VatHandsOver /\ ~Truthy(tx.supplier_country)
  /\ Truthy(PrefixCountry)
  /\ UsableVatEntry.country_code # PrefixCountry
  /\ countryCode = PrefixCountry

\* C17: with a known country, when no query for one of the product hints finds a
\* factor but the NACE code and country have factors, the resolver returns the
\* tier-2 country average and not a single product's factor.
C17_CountryAverageWithoutHintMatch ==
  ( /\ ResolverReturned /\ Truthy(countryCode)
    /\ \A i \in DOMAIN productHints :
         findEmissionFactor(db, naceCode, countryCode, productHints[i]) = NullRec
    /\ findEmissionFactors(db, naceCode, countryCode) # <<>> )
    => /\ fallback.tier = 2
       /\ RatEq(fallback.factor.emission_factor_kgco2e_per_eur,
                Average(findEmissionFactors(db, naceCode, countryCode)))

\* The account mapping names a NACE code and has no usable pre-linked factor.
AccountTiers ==
  /\ AccountEntry # NullRec /\ Truthy(AccountEntry.nace_code)
  /\ ~( Truthy(AccountEntry.emission_factor_id)
        /\ getEmissionFactorById(db, AccountEntry.emission_factor_id) # NullRec )

VatMisses ==
  Truthy(VatNace) /\ TierFor(VatNace, CountryInEffect, HintsOfTx) = TierNull

AccountMisses ==
  AccountTiers /\ TierFor(AccountEntry.nace_code, CountryInEffect, HintsOfTx) = TierNull

\* C20: a data miss makes the selector fall through: when the VAT strategy has a
\* NACE code that no tier resolves, the account strategy's match is returned, and
\* when the account NACE code resolves to nothing either, the supplier strategy's;
\* the result carries the later strategy's method, NACE code and base confidence,
\* and a miss alone never ends the call as failed.
C20_DataMissFallsThrough ==
  /\ (Returned /\ VatMisses /\ AccountTiers /\ ~AccountMisses) =>
       /\ result.method = "account_mapping"
       /\ result.naceCode = AccountEntry.nace_code
       /\ result.confidence = ClampedSum(config, "account_mapping", result.tier)
  /\ (Returned /\ (VatMisses \/ AccountMisses) /\ ~VatResolves /\ ~AccountResolves
        /\ SupplierResolves) =>
       /\ result.method = "supplier_mapping"
       /\ result.naceCode = SupplierEntry.nace_code
       /\ result.confidence = ClampedSum(config, "supplier_mapping", result.tier)
  /\ (pc = "failed") => \E i \in DOMAIN calls : ~calls[i].ok

C20_Witness ==
  /\ Returned /\ VatMisses /\ AccountTiers
  /\ result.method = "account_mapping"
  /\ result.naceCode # VatNace
  /\ \E i \in DOMAIN calls :
       calls[i].op = "findNACEEmissionFactor" /\ calls[i].strategy = "vat" /\ calls[i].ok

----------------------------------------------------------------------------
(* Claims about the synchronous functions *)

EnergyHints == {"wind", "solar", "hydro", "nuclear", "coal", "gas", "electricity"}
TransportHints == {"air transport", "rail", "freight"}
GeneralHints == {"renewable", "fossil"}

HintGroup(h) ==
  IF h \in EnergyHints THEN 1 ELSE IF h \in TransportHints THEN 2 ELSE 3

Occurs(v, h) == \E i \in DOMAIN v : v[i] = h

Before(v, a, b) == \E i, j \in DOMAIN v : i < j /\ v[i] = a /\ v[j] = b

HintsReturned == fn = "extractProductHints" /\ ret.done

\* The tokens returned are those with a keyword in the lowercased text, each once,
\* energy before transport before general.
HintsInGroupOrder ==
  LET v == ret.value
      text == toLowerCase(arg)
  IN  /\ \A k \in DOMAIN HINT_RULES :
           Occurs(v, HINT_RULES[k].hint)
             <=> (\E key \in HINT_RULES[k].keys : Includes(text, key))
      /\ \A i, j \in DOMAIN v : i < j => v[i] # v[j]
      /\ \A i, j \in DOMAIN v : i < j => HintGroup(v[i]) <= HintGroup(v[j])
      /\ \A i \in DOMAIN v : v[i] \in EnergyHints \cup TransportHints \cup GeneralHints
      /\ arg = <<>> => v = <<>>

BothElectricityAndWind ==
  /\ Includes(toLowerCase(arg), <<"e","l","e","c","t","r","i","c","i","t","y">>)
  /\ Includes(toLowerCase(arg), <<"w","i","n","d">>)

\* C13 as the specification states it: the hints come in a fixed scan order, energy
\* then transport then general, wherever the keywords stand in the text; a
\* description with both 'electricity' and 'wind' gives both, 'electricity'
\* before 'wind'; an absent description gives the empty sequence.
C13_Original ==
  HintsReturned =>
    /\ HintsInGroupOrder
    /\ BothElectricityAndWind => Before(ret.value, "electricity", "wind")

\* The order in which the energy tokens are returned.
EnergyScanOrder == << "wind", "solar", "hydro", "nuclear", "coal", "gas", "electricity" >>

PlaceOf(h) == CHOOSE i \in DOMAIN EnergyScanOrder : EnergyScanOrder[i] = h

\* C13 as amended: the same, the energy tokens coming in the order wind, solar,
\* hydro, nuclear, coal, gas, electricity, so that a description with both
\* 'electricity' and 'wind' gives 'wind' before 'electricity'.
C13_HintsInScanOrder ==
  HintsReturned =>
    /\ HintsInGroupOrder
    /\ \A i, j \in DOMAIN ret.value :
         (i < j /\ ret.value[i] \in EnergyHints /\ ret.value[j] \in EnergyHints)
           => PlaceOf(ret.value[i]) < PlaceOf(ret.value[j])
    /\ BothElectricityAndWind => Before(ret.value, "wind", "electricity")

C13_Witness ==
  /\ HintsReturned /\ arg = EXAMPLE_DESCRIPTION
  /\ ret.value = << "wind", "electricity" >>

RECURSIVE LastSpace(_)
LastSpace(s) ==
  IF s = <<>> THEN 0 ELSE IF s[Len(s)] = " " THEN Len(s)
  ELSE LastSpace(SubSeq(s, 1, Len(s) - 1))

\* The name lowercased and trimmed, and its last whitespace-separated token.
CleanName == Trim(toLowerCase(arg))
LastToken == SubSeq(CleanName, LastSpace(CleanName) + 1, Len(CleanName))

\* C14: the result is the lowercased, trimmed name without its last token when that
\* token is one of the listed legal-form abbreviations, and the lowercased, trimmed
\* name with no character removed when it is not.
C14_OnlySuffixTokenRemoved ==
  (fn = "normalizeSupplierName" /\ ret.done) =>
    ret.value = IF LastToken \in COMPANY_SUFFIXES
                THEN Trim(SubSeq(CleanName, 1, LastSpace(CleanName)))
                ELSE CleanName

StatisticsReturned == fn = "getMatchingStatistics" /\ ret.done

\* How many results of the map have the tier.
NumberOfTier(entries, tier) ==
  Cardinality({ i \in DOMAIN entries : entries[i].result.tier = tier })

RECURSIVE SumOfConfidence(_)
SumOfConfidence(entries) ==
  IF entries = <<>> THEN 0
  ELSE Head(entries).result.confidence + SumOfConfidence(Tail(entries))

Abs(x) == IF x < 0 THEN -x ELSE x

\* The string is the decimal with unit 1/scale nearest to num/den.
NearestDecimal(str, num, den, scale) ==
  /\ ~str.nan
  /\ str.frac \in 0..(scale - 1)
  /\ 2 * Abs((str.whole * scale + str.frac) * den - num * scale) <= den

\* C15: for a non-empty map, total is the number of entries, unmatched the number
\* of results with tier null, matched their difference and the sum of the four
\* tier counts; matchRate and the tier rates are matched/total and tierN/total as
\* percentages with one decimal, avgConfidence the mean confidence over all
\* results, the unmatched included, with two decimals; 6 tier-1, 2 tier-2, 1 tier-3
\* and 1 unmatched give matchRate 90.0% and tier1Rate 60.0%.
C15_Statistics ==
  (StatisticsReturned /\ arg # <<>>) =>
    LET st == ret.value
    IN  /\ st.total = Len(arg)
        /\ st.unmatched = NumberOfTier(arg, TierNull)
        /\ st.matched = st.total - st.unmatched
        /\ st.tier1 = NumberOfTier(arg, 1) /\ st.tier2 = NumberOfTier(arg, 2)
        /\ st.tier3 = NumberOfTier(arg, 3) /\ st.tier4 = NumberOfTier(arg, 4)
        /\ st.tier1 + st.tier2 + st.tier3 + st.tier4 = st.matched
        /\ NearestDecimal(st.matchRate, 100 * st.matched, st.total, 10)
        /\ NearestDecimal(st.tier1Rate, 100 * st.tier1, st.total, 10)
        /\ NearestDecimal(st.tier2Rate, 100 * st.tier2, st.total, 10)
        /\ NearestDecimal(st.tier3Rate, 100 * st.tier3, st.total, 10)
        /\ NearestDecimal(st.tier4Rate, 100 * st.tier4, st.total, 10)
        /\ st.matchRate.digits = 1 /\ st.tier1Rate.digits = 1
        /\ st.avgConfidence.digits = 2
        /\ NearestDecimal(st.avgConfidence, SumOfConfidence(arg), 100 * st.total, 100)
        /\ ( NumberOfTier(arg, 1) = 6 /\ NumberOfTier(arg, 2) = 2
             /\ NumberOfTier(arg, 3) = 1 /\ NumberOfTier(arg, TierNull) = 1
             /\ Len(arg) = 10 )
           => ( /\ st.matchRate.whole = 90 /\ st.matchRate.frac = 0
                /\ st.tier1Rate.whole = 60 /\ st.tier1Rate.frac = 0 )

C15_Witness ==
  /\ StatisticsReturned /\ Len(arg) = 10
  /\ NumberOfTier(arg, 1) = 6 /\ NumberOfTier(arg, 2) = 2
  /\ NumberOfTier(arg, 3) = 1 /\ NumberOfTier(arg, TierNull) = 1
  /\ ret.value.matchRate = [nan |-> FALSE, whole |-> 90, frac |-> 0, digits |-> 1]
  /\ ret.value.avgConfidence.whole = 0 /\ ret.value.avgConfidence.frac > 0

----------------------------------------------------------------------------
(* Claims about batchMatchTransactions *)

BatchOver == batchPc \in {"returned", "failed"}

\* The caller of batchMatchTransactions holds a result for the transaction id.
Delivered(id) ==
  batchPc = "returned" /\ \E i \in DOMAIN results : results[i].id = id

\* C11: a repository failure during one transaction of a batch aborts that
\* transaction only: once the batch is over, every transaction other than the one
\* whose matching failed has its result in the map the caller receives.
C11_FailureAbortsOneTransactionOnly ==
  BatchOver =>
    \A k \in DOMAIN transactions :
      (batchPc = "failed" /\ k = batchIdx) \/ Delivered(transactions[k].id)

----------------------------------------------------------------------------
(* Claims about several matchTransaction calls *)

CallIds == DOMAIN suspended

\* The parameters and locals of call c, running or awaiting its turn.
LocalsOf(c) == IF c = running THEN Locals ELSE suspended[c]

\* What the fallback order yields for NACE code n, country c and the hints in
\* repository d when every lookup answers.
AloneFallback(d, n, c, hints) ==
  LET hits == { i \in DOMAIN hints : findEmissionFactor(d, n, c, hints[i]) # NullRec }
      first == CHOOSE i \in hits : \A j \in hits : i <= j
      info == IF Len(hints) > 0 THEN hints[1] ELSE ""
  IN  IF Truthy(c) /\ hits # {}
      THEN [ factor |-> findEmissionFactor(d, n, c, hints[first]), tier |-> 1,
             reasoning |-> <<"Exact match", c, n, info>> ]
      ELSE IF Truthy(c) /\ findEmissionFactor(d, n, c, NoHint) # NullRec
      THEN [ factor |-> findEmissionFactor(d, n, c, NoHint), tier |-> 1,
             reasoning |-> <<"Exact match", c, n, info>> ]
      ELSE IF Truthy(c) /\ findEmissionFactors(d, n, c) # <<>>
      THEN [ factor |-> SyntheticTier2(findEmissionFactors(d, n, c)), tier |-> 2,
             reasoning |-> <<"Country average", c, n>> ]
      ELSE IF findEmissionFactorsEU(d, n) # <<>>
      THEN [ factor |-> SyntheticTier3(findEmissionFactorsEU(d, n)), tier |-> 3,
             reasoning |-> <<"EU average", n>> ]
      ELSE IF findNACEEmissionFactor(d, n) # NullRec
      THEN [ factor |-> SyntheticTier4(findNACEEmissionFactor(d, n)), tier |-> 4,
             reasoning |-> <<"Global sector average", n>> ]
      ELSE [ factor |-> NullRec, tier |-> TierNull,
             reasoning |-> <<"No emission factor found", n>> ]

\* The MatchResult of matchTransaction(t, d, cid, cfg) run on its own with every
\* lookup answering, and the number of usage increments it issues.
AloneOutcome(t, cid, cfg, d) ==
  LET hints    == extractProductHints(t.description)
      prefix   == getCountryFromVAT(t.vat_number)
      vatEntry == IF t.vat_number # <<>> /\ cfg.cacheVAT
                  THEN getVATCache(d, t.vat_number) ELSE NullRec
      vatValid == vatEntry # NullRec /\ vatEntry.is_valid
      vatCountry == IF t.vat_number = <<>> THEN NULL
                    ELSE IF vatValid /\ ~Truthy(prefix) THEN vatEntry.country_code
                    ELSE prefix
      country  == IF ~Truthy(t.supplier_country) /\ Truthy(vatCountry)
                  THEN vatCountry ELSE t.supplier_country
      vatNace  == IF vatValid THEN vatEntry.nace_code ELSE NULL
      acc      == IF Truthy(t.account_code) /\ Truthy(cid)
                  THEN getAccountMapping(d, cid, t.account_code) ELSE NullRec
      linked   == IF acc # NullRec /\ Truthy(acc.emission_factor_id)
                  THEN getEmissionFactorById(d, acc.emission_factor_id) ELSE NullRec
      accNace  == IF acc # NullRec THEN acc.nace_code ELSE NULL
      sup      == IF t.supplier_name # <<>>
                  THEN getSupplierMapping(d, normalizeSupplierName(t.supplier_name))
                  ELSE NullRec
      supNace  == IF sup # NullRec THEN sup.nace_code ELSE NULL
      Tiered(method, description, n) ==
        LET fb == AloneFallback(d, n, country, hints)
        IN  [ emissionFactor  |-> fb.factor,
              naceCode        |-> n,
              countryCode     |-> IF Truthy(country) THEN country ELSE NULL,
              productCode     |-> fb.factor.exiobase_product_code,
              confidence      |-> ClampedSum(cfg, method, fb.tier),
              tier            |-> fb.tier,
              method          |-> method,
              reasoning       |-> description \o fb.reasoning,
              fallbackApplied |-> fb.tier \in {2, 3, 4} ]
      Resolves(n) == Truthy(n) /\ AloneFallback(d, n, country, hints).factor # NullRec
      increments == IF sup # NullRec /\ cfg.enableLearning /\ Truthy(sup.id) THEN 1 ELSE 0
  IN  IF Resolves(vatNace)
      THEN [ result |-> Tiered("vat_lookup", <<"VAT lookup">>, vatNace), increments |-> 0 ]
      ELSE IF linked # NullRec
      THEN [ result |->
               [ emissionFactor  |-> linked,
                 naceCode        |-> accNace,
                 countryCode     |-> linked.country_code,
                 productCode     |-> linked.exiobase_product_code,
                 confidence      |-> cfg.methodConfidence.account_mapping,
                 tier            |-> 1,
                 method          |-> "account_mapping",
                 reasoning       |-> <<"Account code", t.account_code,
                                       "Pre-mapped emission factor">>,
                 fallbackApplied |-> FALSE ],
             increments |-> 0 ]
      ELSE IF Resolves(accNace)
      THEN [ result |-> Tiered("account_mapping", <<"Account code", t.account_code>>, accNace),
             increments |-> 0 ]
      ELSE IF Resolves(supNace)
      THEN [ result |-> Tiered("supplier_mapping", <<"Supplier name">>, supNace),
             increments |-> increments ]
      ELSE [ result |-> NoMatchResult, increments |-> increments ]

AloneOf(c) ==
  AloneOutcome(LocalsOf(c).tx, LocalsOf(c).companyId, LocalsOf(c).config, SharedDb)

IncrementsIssuedBy(c) ==
  Cardinality({ i \in DOMAIN LocalsOf(c).calls :
                  LocalsOf(c).calls[i].op = "incrementSupplierUsage" })

RECURSIVE SumOver(_, _)
SumOver(F(_), S) ==
  IF S = {} THEN 0
  ELSE LET x == CHOOSE y \in S : TRUE IN F(x) + SumOver(F, S \ {x})

AloneIncrementsOf(c) == AloneOf(c).increments

AllReturned == \A c \in CallIds : LocalsOf(c).pc = "done"

\* C19: whatever the interleaving of the repository calls of concurrent
\* matchTransaction calls, the looked-up data stays as it was, every call that
\* returns returns the MatchResult it returns when run alone, and when all have
\* returned the usage increments issued are those of the calls run alone, in
\* number per call and in total.
C19_ConcurrentCallsAreIndependent ==
  /\ [db EXCEPT !.timesUsed = SharedDb.timesUsed] = SharedDb
  /\ \A c \in CallIds :
       LocalsOf(c).pc = "done" =>
         /\ LocalsOf(c).result = AloneOf(c).result
         /\ IncrementsIssuedBy(c) = AloneOf(c).increments
  /\ AllReturned => db.timesUsed["s1"] = SumOver(AloneIncrementsOf, CallIds)

\* A call with a supplier_country has returned while a call without one was
\* suspended in the middle of its repository calls, and has since gone on.
C19_Witness ==
  \E c, o \in CallIds :
    /\ c # o
    /\ LocalsOf(c).pc = "done" /\ LocalsOf(c).tx.supplier_country = "SE"
    /\ LocalsOf(c).result.tier = 1
    /\ LocalsOf(o).pc = "done" /\ LocalsOf(o).result.method = "supplier_mapping"
    /\ LocalsOf(o).result.countryCode = NULL
    /\ running = o
    /\ db.timesUsed["s1"] = 1

SameButLevels(cfg1, cfg2) ==
  [cfg1 EXCEPT !.confidenceLevels = cfg2.confidenceLevels] = cfg2

\* C18: the confidence is a function of the method, the tier, methodConfidence
\* and tierAdjustments alone: two runs that reach the same method and tier under
\* the same two settings return the same confidence, whatever the amount,
\* currency, description and hints of their transactions and whatever their
\* confidenceLevels, which change no field of a result.
C18_ConfidenceDependsOnMethodAndTier ==
  \A c, o \in CallIds :
    (LocalsOf(c).pc = "done" /\ LocalsOf(o).pc = "done") =>
      LET r1 == LocalsOf(c).result
          r2 == LocalsOf(o).result
          cfg1 == LocalsOf(c).config
          cfg2 == LocalsOf(o).config
      IN  /\ ( /\ r1.method = r2.method /\ r1.tier = r2.tier
               /\ cfg1.methodConfidence = cfg2.methodConfidence
               /\ cfg1.tierAdjustments = cfg2.tierAdjustments )
             => r1.confidence = r2.confidence
          /\ ( /\ LocalsOf(c).tx = LocalsOf(o).tx
               /\ LocalsOf(c).companyId = LocalsOf(o).companyId
               /\ SameButLevels(cfg1, cfg2) )
             => r1 = r2

----------------------------------------------------------------------------
(* Claims about the tier queries *)

StrategyNames == {"vat", "account", "supplier"}

\* The tier-1 queries a strategy issued, in the order issued.
IsTier1QueryOf(s, c) == c.strategy = s /\ c.op = "findEmissionFactor"
Tier1QueriesOf(s) == SelectSeq(calls, LAMBDA c : IsTier1QueryOf(s, c))

\* The product_hint filters tier 1 may use, in order, the last being none.
Tier1Order == HintsOfTx \o <<NoHint>>

\* The row the repository holds for the key of a tier-1 query.
RowOfQuery(q) == findEmissionFactor(db, q.key[1], q.key[2], q.key[3])

\* A query that names a country: every tier-1 query and the tier-2 query.
NamesCountry(c) ==
  \/ c.op = "findEmissionFactor"
  \/ c.op = "findEmissionFactors" /\ c.key[2] # "EU_COUNTRIES"

ResolverOver(s) == strategy = s /\ pc \in {"fallback_return", "done"} /\ fallback # NullRec

\* C21: the tier-1 queries of a strategy follow the hint order, one per hint and
\* then one without a hint filter, each issued only after all earlier ones
\* missed, so that the factor returned is that of the first query that hits;
\* without a country no query naming a country is issued and the resolver
\* returns tier 3, 4 or null.
C21_Tier1QueryOrder ==
  LET order == Tier1Order
  IN  /\ \A s \in StrategyNames :
           LET q == Tier1QueriesOf(s)
               n == Len(q)
           IN  /\ n <= Len(order)
               /\ \A k \in 1..n :
                    /\ q[k].key[3] = order[k]
                    /\ k < n => (q[k].ok /\ RowOfQuery(q[k]) = NullRec)
               /\ (n > 0 /\ ResolverOver(s) /\ q[n].ok /\ RowOfQuery(q[n]) # NullRec)
                  => (fallback.tier = 1 /\ fallback.factor = RowOfQuery(q[n]))
               /\ (ResolverOver(s) /\ fallback.tier = 1)
                  => (n > 0 /\ fallback.factor = RowOfQuery(q[n]))
      /\ (calls # <<>> /\ ~Truthy(CountryInEffect)) =>
           /\ \A i \in DOMAIN calls : ~NamesCountry(calls[i])
           /\ fallback # NullRec => fallback.tier \in {3, 4, TierNull}

\* The first hint missed and the second hit: two tier-1 queries were issued, none
\* without a hint filter, and the factor of the second hint is returned.
C21_Witness ==
  /\ Returned
  /\ Len(HintsOfTx) = 2
  /\ Len(Tier1QueriesOf("vat")) = 2
  /\ result.method = "vat_lookup" /\ result.tier = 1
  /\ result.emissionFactor = findEmissionFactor(db, VatNace, CountryInEffect, HintsOfTx[2])

----------------------------------------------------------------------------
(* Claims about the account-code strategy *)

AccountAttempted == Truthy(tx.account_code) /\ Truthy(companyId)

\* The factor the mapping's pre-linked id leads to, NullRec if it has none.
LinkedFactor ==
  IF AccountEntry # NullRec /\ Truthy(AccountEntry.emission_factor_id)
  THEN getEmissionFactorById(db, AccountEntry.emission_factor_id) ELSE NullRec

\* The mapping names a factor id that the by-id lookup does not find.
LinkDangles ==
  /\ AccountEntry # NullRec
  /\ Truthy(AccountEntry.emission_factor_id)
  /\ LinkedFactor = NullRec

IsTierQuery(c) ==
  c.op \in {"findEmissionFactor", "findEmissionFactors", "findNACEEmissionFactor"}

----------------------------------------------------------------------------
(* Claims about the reasoning *)

\* The strategy's own part of the reasoning, by the method of the result.
DescriptionOfMethod(m) ==
  CASE m = "vat_lookup" -> <<"VAT lookup">>
    [] m = "account_mapping" -> <<"Account code", tx.account_code>>
    [] m = "supplier_mapping" -> <<"Supplier name">>

\* The tier resolver's part: country and NACE code at tiers 1 and 2, the NACE
\* code alone below, and at tier 1 the hint used ("" for none).
ReasoningOfTier(tier, c, n, hint) ==
  CASE tier = 1 -> <<"Exact match", c, n, hint>>
    [] tier = 2 -> <<"Country average", c, n>>
    [] tier = 3 -> <<"EU average", n>>
    [] tier = 4 -> <<"Global sector average", n>>

\* A result the strategy built from what the tier resolver returned.
TieredReturned ==
  /\ Returned
  /\ result.method # "none"
  /\ result.reasoning[Len(result.reasoning)] # "Pre-mapped emission factor"

\* The product_hint filter of the tier-1 query that returned the factor, "" when
\* it was the query without a filter.
HintUsed ==
  LET q == Tier1QueriesOf(strategy)
      h == q[Len(q)].key[3]
  IN  IF result.tier = 1 /\ h # NoHint THEN h ELSE ""

\* C23: the reasoning of a result built by tiering is the strategy's description
\* followed by the tier resolver's reasoning, and the tier-1 reasoning names the
\* hint whose query returned the factor, and none when the query without a hint
\* filter returned it.
C23_ReasoningNamesHintUsed ==
  TieredReturned =>
    result.reasoning =
      DescriptionOfMethod(result.method)
        \o ReasoningOfTier(result.tier, result.countryCode, result.naceCode, HintUsed)

----------------------------------------------------------------------------
(* Claims about the course of a call *)

Ended ==
  \/ pc = "done" /\ result # NullRec /\ error = NULL
  \/ pc = "failed" /\ result = NullRec /\ error # NULL

\* No repository call is issued twice by the same strategy.
NoCallRepeated ==
  \A i, j \in DOMAIN calls :
    (i < j /\ calls[i].strategy = calls[j].strategy /\ calls[i].op = calls[j].op)
      => calls[i].key # calls[j].key

\* C24: when every awaited repository call settles, a matchTransaction call ends,
\* with a MatchResult or with the failure of a repository call, having issued at
\* most 17 repository calls plus three per product hint and none of them twice.
C24_RunsToCompletion ==
  /\ [](Len(calls) <= 17 + 3 * Len(HintsOfTx))
  /\ []NoCallRepeated
  /\ <>Ended

\* A call with two product hints that went through every tier of all three
\* strategies has ended, having issued exactly 17 + 3 * 2 repository calls.
C24_Witness ==
  /\ Ended
  /\ Len(HintsOfTx) = 2
  /\ Len(calls) = 17 + 3 * Len(HintsOfTx)
  /\ \A s \in StrategyNames : \E i \in DOMAIN calls : calls[i].strategy = s /\ IsTierQuery(calls[i])

----------------------------------------------------------------------------
(* Claims about the order and the map of a batch *)

\* The last transaction of the batch that has the id.
LastWithId(id) ==
  LET ks == { k \in DOMAIN transactions : transactions[k].id = id }
  IN  transactions[CHOOSE k \in ks : \A j \in ks : j <= k]

\* What matchTransaction gives for a transaction of the batch.
ResultAlone(t) == AloneOutcome(t, companyId, config, SharedDb).result

\* The returned map has one entry per distinct id, holding the result of the last
\* transaction with that id.
MapOfLastResults ==
  /\ { results[i].id : i \in DOMAIN results } = { transactions[k].id : k \in DOMAIN transactions }
  /\ \A i, j \in DOMAIN results : results[i].id = results[j].id => i = j
  /\ \A i \in DOMAIN results : results[i].result = ResultAlone(LastWithId(results[i].id))

\* A step of the batch: the loop moves on by one transaction and only from a call
\* that returned, a call is entered only for the transaction the loop is at and
\* only when no call is in progress, and a repository call is issued only by the
\* call for that transaction.
OneAfterAnother ==
  /\ batchIdx' # batchIdx =>
       (batchIdx' = batchIdx + 1 /\ pc = "done" /\ tx = transactions[batchIdx])
  /\ (pc' = "start" /\ pc # "start") =>
       (pc \in {"none", "done"} /\ tx' = transactions[batchIdx] /\ Len(results) <= batchIdx - 1)
  /\ (calls' # calls /\ calls' # <<>>) =>
       (batchPc = "awaiting" /\ tx = transactions[batchIdx] /\ tx' = tx /\ batchIdx' = batchIdx)

\* C25: batchMatchTransactions matches the transactions one after another in
\* input order, no repository call of a transaction being issued before the call
\* for the transaction before it returned, and the map it returns holds for each
\* distinct id the result matchTransaction gives, for an id shared by two
\* transactions that of the later one.
C25_SequentialAndLastWins ==
  /\ [][OneAfterAnother]_vars
  /\ [](batchPc = "returned" => MapOfLastResults)

\* A batch of two different transactions with the same id has returned a map with
\* the one entry of the second.
C25_Witness ==
  /\ batchPc = "returned"
  /\ Len(transactions) = 2
  /\ transactions[1].id = transactions[2].id
  /\ ResultAlone(transactions[1]) # ResultAlone(transactions[2])
  /\ Len(results) = 1
  /\ results[1].result = ResultAlone(transactions[2])

----------------------------------------------------------------------------
(* Claims about the usage counter *)

\* The supplier mapping the strategy found is one whose use is counted.
LearnsFromSupplier ==
  /\ SupplierEntry # NullRec
  /\ config.enableLearning
  /\ Truthy(SupplierEntry.id)

IsSupplierTierQuery(c) == c.strategy = "supplier" /\ IsTierQuery(c)

\* The supplier-name strategy was reached and its mapping lookup answered.
SupplierMappingFetched ==
  \E i \in DOMAIN calls : calls[i].op = "getSupplierMapping" /\ calls[i].ok

WritingOps ==
  {"incrementSupplierUsage", "setVATCache", "setSupplierMapping", "setAccountMapping"}

IncrementCalls == { i \in DOMAIN calls : calls[i].op = "incrementSupplierUsage" }

\* The only writing method called is incrementSupplierUsage, at most once, and
\* only with learning enabled, for a found mapping that has an id, by a call in
\* which neither the VAT nor the account-code strategy returned a result; the
\* counter counts the increments that succeeded and no other counter exists.
UsageCounterFrame ==
  /\ \A i \in DOMAIN calls :
       calls[i].op \in WritingOps => calls[i].op = "incrementSupplierUsage"
  /\ Cardinality(IncrementCalls) <= 1
  /\ (~config.enableLearning \/ SupplierEntry = NullRec \/ ~Truthy(SupplierEntry.id))
       => IncrementCalls = {}
  /\ (Returned /\ result.method \in {"vat_lookup", "account_mapping"})
       => IncrementCalls = {}
  /\ DOMAIN db.timesUsed = {"s1"}
  /\ db.timesUsed["s1"] = Cardinality({ i \in IncrementCalls : calls[i].ok })

\* A step leaves the arguments and everything the repository holds but the
\* usage counter as they were.
LookedUpDataUnchanged ==
  /\ tx' = tx
  /\ config' = config
  /\ companyId' = companyId
  /\ [db' EXCEPT !.timesUsed = db.timesUsed] = db

\* C27: matchTransaction changes nothing but the supplier usage counter: it
\* calls incrementSupplierUsage at most once, never with learning disabled,
\* without a found supplier mapping that has an id, or when the VAT or the
\* account-code strategy returned a result; it calls no other writing method of
\* the repository, stores no factor, and leaves the transaction and the
\* configuration as they were.
C27_OnlyUsageCounterChanges ==
  /\ []UsageCounterFrame
  /\ [][LookedUpDataUnchanged]_vars

\* With learning disabled a found supplier mapping gave the result and its
\* counter is still 0.
C27_Witness ==
  /\ Returned
  /\ ~config.enableLearning
  /\ SupplierEntry # NullRec /\ Truthy(SupplierEntry.id)
  /\ result.method = "supplier_mapping"
  /\ result.fallbackApplied
  /\ db.timesUsed["s1"] = 0

----------------------------------------------------------------------------
(* Claims about the tiers a repository allows *)

\* The single-row query without a hint filter finds a row wherever the multi-row
\* query for the same NACE code and country finds any.
SingleRowWhereverRows ==
  \A key \in DOMAIN db.emissionFactors :
    db.emissionFactors[key] # <<>>
      => findEmissionFactor(db, key[1], key[2], NoHint) # NullRec

----------------------------------------------------------------------------
(* Claims about the country in effect *)

\* The VAT strategy obtains a country: the identifier's prefix names one, or a
\* valid cache entry carries one.
VatObtainsCountry ==
  /\ tx.vat_number # <<>>
  /\ \/ Truthy(PrefixCountry)
     \/ UsableVatEntry # NullRec /\ Truthy(UsableVatEntry.country_code)

LaterStrategies == {"account", "supplier"}

\* A result the account-code or the supplier-name strategy built by tiering.
TieredByLaterStrategy ==
  TieredReturned /\ result.method \in {"account_mapping", "supplier_mapping"}

\* C29: for a transaction without a supplier_country, a country the VAT strategy
\* obtained stays in effect when that strategy returns no result: the tier
\* queries of the account-code and supplier-name strategies name it and a result
\* they build by tiering reports it; a supplier_country the transaction carries
\* is the country of the tier queries of all three strategies and of the result.
C29_CountryStaysInEffect ==
  /\ (~Truthy(tx.supplier_country) /\ VatObtainsCountry) =>
       /\ \A i \in DOMAIN calls :
            (calls[i].strategy \in LaterStrategies /\ NamesCountry(calls[i]))
              => calls[i].key[2] = VatOwnCountry
       /\ TieredByLaterStrategy => result.countryCode = VatOwnCountry
  /\ Truthy(tx.supplier_country) =>
       /\ \A i \in DOMAIN calls :
            NamesCountry(calls[i]) => calls[i].key[2] = tx.supplier_country
       /\ TieredReturned => result.countryCode = tx.supplier_country

\* The prefix of the VAT identifier names no country, the valid cache entry
\* carries one, the VAT strategy returned nothing, and a later strategy found a
\* tier-1 factor for that country and reports it.
C29_Witness ==
  /\ ~Truthy(tx.supplier_country)
  /\ ~Truthy(PrefixCountry)
  /\ VatObtainsCountry
  /\ TieredByLaterStrategy
  /\ result.tier = 1
  /\ result.countryCode = UsableVatEntry.country_code

----------------------------------------------------------------------------
(* Claims about tier 4 and the sign of the intensity *)

Intensity(factor) == factor.emission_factor_kgco2e_per_eur

NonNegative(r) == r.num >= 0 /\ r.den > 0

RowsOf(table) == UNION { { table[k][i] : i \in DOMAIN table[k] } : k \in DOMAIN table }

\* No stored row and no aggregated record has an intensity below 0.
RepositoryNonNegative ==
  /\ \A k \in DOMAIN db.emissionFactor : NonNegative(Intensity(db.emissionFactor[k]))
  /\ \A k \in DOMAIN db.emissionFactorById : NonNegative(Intensity(db.emissionFactorById[k]))
  /\ \A f \in RowsOf(db.emissionFactors) \cup RowsOf(db.emissionFactorsEU) :
       NonNegative(Intensity(f))
  /\ \A k \in DOMAIN db.naceEmissionFactor :
       db.naceEmissionFactor[k].scope_3_factor # <<>>
         => db.naceEmissionFactor[k].scope_3_factor[1] >= 0

\* The resolver came down to tier 4: its last call is the lookup of the
\* aggregated record, and it answered.
Tier4Answered ==
  /\ pc = "fallback_return"
  /\ calls # <<>>
  /\ calls[Len(calls)].op = "findNACEEmissionFactor"
  /\ calls[Len(calls)].ok

\* The scope-3 value of the aggregated record is null or 0.
WithoutValue(rec) == rec.scope_3_factor \in {<<>>, <<0>>}

\* C30: when the resolver comes down to tier 4 and the aggregated record of the
\* NACE code exists, it returns a tier-4 factor with country code 'XX' and
\* confidence level 'low', of intensity 0 when the record's scope-3 value is null
\* or 0; it returns factor null and tier null only when the record is absent;
\* and over a repository without negative intensities no factor it returns, and
\* no factor of a result, has a negative intensity.
C30_Tier4AndSign ==
  /\ Tier4Answered =>
       LET rec == findNACEEmissionFactor(db, naceCode)
       IN  IF rec = NullRec
           THEN fallback.factor = NullRec /\ fallback.tier = TierNull
           ELSE /\ fallback.tier = 4
                /\ fallback.factor # NullRec
                /\ fallback.factor.country_code = "XX"
                /\ fallback.factor.country_name = "Global Average"
                /\ fallback.factor.confidence_level = "low"
                /\ WithoutValue(rec) => Intensity(fallback.factor) = Rat(0)
                /\ ~WithoutValue(rec)
                     => Intensity(fallback.factor) = Rat(rec.scope_3_factor[1])
  /\ (pc = "fallback_return" /\ fallback.factor = NullRec) =>
       (fallback.tier = TierNull /\ findNACEEmissionFactor(db, naceCode) = NullRec)
  /\ RepositoryNonNegative =>
       /\ (fallback # NullRec /\ fallback.factor # NullRec)
            => NonNegative(Intensity(fallback.factor))
       /\ (result # NullRec /\ result.emissionFactor # NullRec)
            => NonNegative(Intensity(result.emissionFactor))

\* An aggregated record whose scope-3 value is null gave a tier-4 match of
\* intensity 0.
C30_Witness ==
  /\ Returned
  /\ result.tier = 4
  /\ findNACEEmissionFactor(db, result.naceCode).scope_3_factor = <<>>
  /\ Intensity(result.emissionFactor) = Rat(0)
  /\ result.emissionFactor.country_code = "XX"
  /\ result.method = "supplier_mapping"

====
